---- MODULE Spec2Model ----
(***************************************************************************)
(* Model of the rule evaluation core of rule-flow-platform:                *)
(*   packages/backend/rule-engine/src/rule-engine.ts  (RuleEngine)         *)
(*   packages/backend/rule-engine/src/storage/rule-storage.ts (RuleStorage)*)
(*   packages/backend/rule-engine/src/expression-evaluator.ts              *)
(*                                                                         *)
(* JavaScript values are tagged records [t, v]:                            *)
(*   Num(n)  a number (the model uses naturals only)                       *)
(*   Str(cs) a string, as the sequence of its characters                   *)
(*   Arr(s)  an array, Map(f) a plain object, Undef the value undefined     *)
(* A field path "a.b.c" is the sequence of its segments <<"a","b","c">>,   *)
(* that is, the result of path.split('.').                                 *)
(* Wall-clock values (executionTimeMs, timestamp, stack) are left out.     *)
(* In the model of the actions of a pass, arrays and plain objects live in *)
(* a heap and a value may be Ref(a), a reference to the object at a.       *)
(***************************************************************************)
EXTENDS Integers, Sequences, FiniteSets, TLC

VARIABLES
    \* ---- one execute() call (RuleEngine.execute) ----
    request,         \* the RuleExecutionRequest
    configService,   \* rulesets held by the config service, by id
    pc,              \* position of the call
    ruleSet,         \* what loadRuleSet returned
    data,            \* the working record
    sortedRules,     \* filtered and sorted rules
    idx,             \* index of the rule of the current loop iteration
    pending,         \* the awaited executeActions outcome
    executionTrace,
    errors,
    rulesMatched,
    result,          \* what the call returned (or that it rejected)
    \* ---- condition evaluation on its own ----
    cond, condData, condOut, condOutNotNot,
    \* ---- scope filter on its own ----
    scopeRules, scopeContext, scopeOut,
    \* ---- priority sort on its own ----
    sortInput, sortOut,
    \* ---- the actions of a pass, with objects held by reference ----
    heap,            \* the objects: heap[a] is the object at address a
    heapAtCall,      \* the objects as they were when execute was called
    requestHasData,  \* whether the request carries a data object
    dataRef,         \* the working record (Undef before line 40 has run)
    applied,         \* how many actions of the pass have run
    last,            \* the action that ran last and what it did
    \* ---- the recursion of condition evaluation, call by call ----
    tree, treeData, levels, callStack, returned,
    \* ---- field resolution and the ordering operators on their own ----
    lookupRecord, lookupCondition, lookupValue, lookupOut,
    \* ---- ruleset loads of one engine over time ----
    storageClock, loads,
    \* ---- two execute() calls on one engine ----
    calls, clock, schedule,
    \* ---- one evaluation of an arithmetic expression ----
    terms, termsDone, elapsed, exprPc, exprOut

execVars == <<request, configService, pc, ruleSet, data, sortedRules, idx,
              pending, executionTrace, errors, rulesMatched, result>>
condVars == <<cond, condData, condOut, condOutNotNot>>
scopeVars == <<scopeRules, scopeContext, scopeOut>>
sortVars == <<sortInput, sortOut>>
actVars == <<heap, heapAtCall, requestHasData, dataRef, applied, last>>
depthVars == <<tree, treeData, levels, callStack, returned>>
lookupVars == <<lookupRecord, lookupCondition, lookupValue, lookupOut>>
cacheVars == <<storageClock, loads>>
callsVars == <<calls, clock, schedule>>
exprVars == <<terms, termsDone, elapsed, exprPc, exprOut>>
vars == <<execVars, condVars, scopeVars, sortVars, actVars, depthVars, lookupVars, cacheVars, callsVars, exprVars>>
notExecVars == <<condVars, scopeVars, sortVars, actVars, depthVars, lookupVars, cacheVars, callsVars, exprVars>>
notCondVars == <<execVars, scopeVars, sortVars, actVars, depthVars, lookupVars, cacheVars, callsVars, exprVars>>
notScopeVars == <<execVars, condVars, sortVars, actVars, depthVars, lookupVars, cacheVars, callsVars, exprVars>>
notSortVars == <<execVars, condVars, scopeVars, actVars, depthVars, lookupVars, cacheVars, callsVars, exprVars>>
notActVars == <<execVars, condVars, scopeVars, sortVars, depthVars, lookupVars, cacheVars, callsVars, exprVars>>
notDepthVars == <<execVars, condVars, scopeVars, sortVars, actVars, lookupVars, cacheVars, callsVars, exprVars>>
notLookupVars == <<execVars, condVars, scopeVars, sortVars, actVars, depthVars, cacheVars, callsVars, exprVars>>
notCacheVars == <<execVars, condVars, scopeVars, sortVars, actVars, depthVars, lookupVars, callsVars, exprVars>>
notCallsVars == <<execVars, condVars, scopeVars, sortVars, actVars, depthVars, lookupVars, cacheVars, exprVars>>
notExprVars == <<execVars, condVars, scopeVars, sortVars, actVars, depthVars, lookupVars, cacheVars, callsVars>>

-----------------------------------------------------------------------------
(* Bounds of the model *)

\* longest rule list of a ruleset in an execute() call
MaxRules == 2
\* how many times a condition is wrapped in not / all / any
MaxCondDepth == 2
\* longest rule list handed to filterRulesByScope on its own
MaxScopeRules == 2
\* longest rule list handed to sortRulesByPriority on its own
MaxSortLen == 4
\* how many actions run in a pass of the by-reference model
MaxActions == 3
\* how far the clock of the concurrent calls runs
MaxClock == 1
\* how many minutes the clock of the ruleset loads runs
MaxMinutes == 6
\* how many ruleset loads one engine makes
MaxLoads == 3

-----------------------------------------------------------------------------
(* JavaScript values *)

Num(n) == [t |-> "num", v |-> n]
Str(cs) == [t |-> "str", v |-> cs]
Arr(s) == [t |-> "arr", v |-> s]
Map(f) == [t |-> "map", v |-> f]
Undef == [t |-> "undefined", v |-> 0]
\* a built-in function, by its name: Object (the constructor every plain
\* object inherits from Object.prototype) and Function (the constructor of a
\* function)
Fn(name) == [t |-> "fn", v |-> name]

\* the empty object {}
EmptyObject == Map(<<>>)

\* UTF-16 code unit of the characters the model uses
CharCode(c) ==
    CASE c = "(" -> 40 [] c = ")" -> 41 [] c = "," -> 44
      [] c = "0" -> 48 [] c = "1" -> 49 [] c = "2" -> 50 [] c = "3" -> 51
      [] c = "4" -> 52 [] c = "5" -> 53 [] c = "6" -> 54 [] c = "7" -> 55
      [] c = "8" -> 56 [] c = "9" -> 57
      [] c = "A" -> 65 [] c = "B" -> 66 [] c = "C" -> 67 [] c = "D" -> 68 [] c = "E" -> 69 [] c = "F" -> 70
      [] c = "I" -> 73 [] c = "M" -> 77 [] c = "N" -> 78 [] c = "O" -> 79
      [] c = "P" -> 80 [] c = "R" -> 82 [] c = "S" -> 83 [] c = "U" -> 85
      [] c = "[" -> 91 [] c = "]" -> 93
      [] c = "a" -> 97 [] c = "v" -> 118 [] c = "{" -> 123 [] c = "}" -> 125
      [] c = "b" -> 98 [] c = "c" -> 99 [] c = "d" -> 100 [] c = "e" -> 101
      [] c = "f" -> 102 [] c = "i" -> 105 [] c = "j" -> 106 [] c = "n" -> 110
      [] c = "o" -> 111 [] c = "t" -> 116 [] c = "u" -> 117 [] c = " " -> 32

Digits == <<"0", "1", "2", "3", "4", "5", "6", "7", "8", "9">>

RECURSIVE NumChars(_)
\* String(n) for a natural n
NumChars(n) ==
    IF n < 10 THEN <<Digits[n + 1]>>
    ELSE NumChars(n \div 10) \o <<Digits[(n % 10) + 1]>>

\* Function.prototype.toString of a built-in function
FnChars(name) ==
    <<"f", "u", "n", "c", "t", "i", "o", "n", " ">>
    \o (IF name = "Object" THEN <<"O", "b", "j", "e", "c", "t">>
        ELSE <<"F", "u", "n", "c", "t", "i", "o", "n">>)
    \o <<"(", ")", " ", "{", " ", "[", "n", "a", "t", "i", "v", "e", " ",
         "c", "o", "d", "e", "]", " ", "}">>

RECURSIVE ToStringChars(_)
RECURSIVE JoinChars(_)
\* Array.prototype.join(','): undefined elements give the empty string
JoinChars(s) ==
    IF s = <<>> THEN <<>>
    ELSE LET h == IF Head(s).t = "undefined" THEN <<>> ELSE ToStringChars(Head(s))
         IN IF Len(s) = 1 THEN h ELSE h \o <<",">> \o JoinChars(Tail(s))

\* String(v)
ToStringChars(v) ==
    CASE v.t = "num" -> NumChars(v.v)
      [] v.t = "str" -> v.v
      [] v.t = "undefined" -> <<"u", "n", "d", "e", "f", "i", "n", "e", "d">>
      [] v.t = "arr" -> JoinChars(v.v)
      [] v.t = "map" -> <<"[", "o", "b", "j", "e", "c", "t", " ",
                          "O", "b", "j", "e", "c", "t", "]">>
      [] v.t = "fn" -> FnChars(v.v)

IsDigit(c) == \E i \in 1..10 : Digits[i] = c

RECURSIVE DigitsValue(_)
DigitsValue(cs) ==
    IF cs = <<>> THEN 0
    ELSE 10 * DigitsValue(SubSeq(cs, 1, Len(cs) - 1))
         + (CharCode(cs[Len(cs)]) - 48)

\* ToPrimitive(v, hint number): objects and arrays become their string
ToPrimitive(v) ==
    IF v.t \in {"arr", "map", "fn"} THEN Str(ToStringChars(v)) ELSE v

\* ToNumber of a primitive: [nan, n]
ToNumber(p) ==
    CASE p.t = "num" -> [nan |-> FALSE, n |-> p.v]
      [] p.t = "str" ->
            IF \A i \in 1..Len(p.v) : IsDigit(p.v[i])
            THEN [nan |-> FALSE, n |-> DigitsValue(p.v)]
            ELSE [nan |-> TRUE, n |-> 0]
      [] OTHER -> [nan |-> TRUE, n |-> 0]

RECURSIVE CharsLess(_, _)
\* code-unit-wise string comparison a < b
CharsLess(a, b) ==
    IF b = <<>> THEN FALSE
    ELSE IF a = <<>> THEN TRUE
    ELSE IF CharCode(Head(a)) # CharCode(Head(b))
         THEN CharCode(Head(a)) < CharCode(Head(b))
    ELSE CharsLess(Tail(a), Tail(b))

\* the abstract relational comparison x < y: "true", "false" or "undefined"
\* (undefined when an operand is NaN)
LessThan(x, y) ==
    LET px == ToPrimitive(x)
        py == ToPrimitive(y)
    IN IF px.t = "str" /\ py.t = "str"
       THEN (IF CharsLess(px.v, py.v) THEN "true" ELSE "false")
       ELSE LET nx == ToNumber(px)
                ny == ToNumber(py)
            IN IF nx.nan \/ ny.nan THEN "undefined"
               ELSE IF nx.n < ny.n THEN "true" ELSE "false"

\* x === y. An array or object of a rule literal is never the same object as
\* a value of the record or the context, so two of them are never identical.
StrictEquals(x, y) ==
    /\ x.t = y.t
    /\ x.t \in {"num", "str", "undefined"}
    /\ x.v = y.v

\* Array.prototype.includes
Includes(s, x) == \E i \in 1..Len(s) : StrictEquals(s[i], x)

\* String.prototype.startsWith / endsWith / includes
StartsWith(s, p) == Len(p) <= Len(s) /\ SubSeq(s, 1, Len(p)) = p
EndsWith(s, p) == Len(p) <= Len(s) /\ SubSeq(s, Len(s) - Len(p) + 1, Len(s)) = p
Contains(s, p) == \E k \in 0..(Len(s) - Len(p)) : SubSeq(s, k + 1, k + Len(p)) = p

\* new RegExp(p) throws a SyntaxError on an unterminated group. The model's
\* patterns are literal characters and parentheses.
RegExpCompiles(p) ==
    Cardinality({i \in 1..Len(p) : p[i] = "("})
        = Cardinality({i \in 1..Len(p) : p[i] = ")"})
\* RegExp.prototype.test for a pattern of literal characters
RegExpTest(p, s) == Contains(s, SelectSeq(p, LAMBDA c : c \notin {"(", ")"}))

-----------------------------------------------------------------------------
(* Outcome of a call that may throw *)

Return(x) == [threw |-> FALSE, value |-> x, message |-> ""]
Throw(m) == [threw |-> TRUE, value |-> FALSE, message |-> m]

-----------------------------------------------------------------------------
(* Field resolution *)

\* current?.[part]. A key the object does not hold is looked up in its
\* prototype: of the inherited properties the model has constructor, on
\* plain objects and on functions.
Prop(current, part) ==
    CASE current.t = "map" ->
            IF part \in DOMAIN current.v THEN current.v[part]
            ELSE IF part = "constructor" THEN Fn("Object")
            ELSE Undef
      [] current.t = "fn" ->
            IF part = "constructor" THEN Fn("Function") ELSE Undef
      [] current.t \in {"arr", "str"} ->
            IF part = "length" THEN Num(Len(current.v)) ELSE Undef
      [] OTHER -> Undef

RECURSIVE getNestedValue(_, _)
getNestedValue(obj, path) ==
    IF path = <<>> THEN obj
    ELSE getNestedValue(Prop(obj, Head(path)), Tail(path))

\* field.startsWith('context.') : the first segment is "context" and more follow
getFieldValue(field, d, context) ==
    IF Len(field) > 1 /\ Head(field) = "context"
    THEN getNestedValue(context, Tail(field))
    ELSE getNestedValue(d, field)

-----------------------------------------------------------------------------
(* Condition evaluation *)

\* 'field' in condition && 'op' in condition
isSimpleCondition(condition) ==
    "field" \in DOMAIN condition /\ "op" \in DOMAIN condition

evaluateSimpleCondition(condition, d, context) ==
    LET fieldValue == getFieldValue(condition.field, d, context)
        compareValue == condition.value
        op == condition.op
    IN CASE op = "eq" -> Return(StrictEquals(fieldValue, compareValue))
         [] op = "ne" -> Return(~StrictEquals(fieldValue, compareValue))
         [] op = "gt" -> Return(LessThan(compareValue, fieldValue) = "true")
         [] op = "gte" -> Return(LessThan(fieldValue, compareValue) = "false")
         [] op = "lt" -> Return(LessThan(fieldValue, compareValue) = "true")
         [] op = "lte" -> Return(LessThan(compareValue, fieldValue) = "false")
         [] op = "in" -> Return(compareValue.t = "arr"
                                /\ Includes(compareValue.v, fieldValue))
         [] op = "nin" -> Return(compareValue.t = "arr"
                                 /\ ~Includes(compareValue.v, fieldValue))
         [] op = "contains" -> Return(Contains(ToStringChars(fieldValue),
                                               ToStringChars(compareValue)))
         [] op = "startsWith" -> Return(StartsWith(ToStringChars(fieldValue),
                                                   ToStringChars(compareValue)))
         [] op = "endsWith" -> Return(EndsWith(ToStringChars(fieldValue),
                                               ToStringChars(compareValue)))
         [] op = "matches" ->
               IF RegExpCompiles(ToStringChars(compareValue))
               THEN Return(RegExpTest(ToStringChars(compareValue),
                                      ToStringChars(fieldValue)))
               ELSE Throw("Invalid regular expression")
         [] OTHER -> Throw("Unknown operator")

RECURSIVE evaluateCondition(_, _, _)
RECURSIVE evaluateComplexCondition(_, _, _)
RECURSIVE every(_, _, _)
RECURSIVE some(_, _, _)
\* every with the test of some: one true child is enough
everyAsSome(cs, d, context) == some(cs, d, context)

\* Array.prototype.every over the children, in list order: stops at the first
\* child that is false; a child that throws ends the call
every(cs, d, context) ==
    IF cs = <<>> THEN Return(TRUE)
    ELSE LET r == evaluateCondition(Head(cs), d, context)
         IN IF r.threw THEN r
            ELSE IF ~r.value THEN Return(FALSE)
            ELSE every(Tail(cs), d, context)

\* Array.prototype.some over the children, in list order: stops at the first
\* child that is true; a child that throws ends the call
some(cs, d, context) ==
    IF cs = <<>> THEN Return(FALSE)
    ELSE LET r == evaluateCondition(Head(cs), d, context)
         IN IF r.threw THEN r
            ELSE IF r.value THEN Return(TRUE)
            ELSE some(Tail(cs), d, context)
\* a negation that swallows the error of its child
negateSwallowing(r) == IF r.threw THEN Return(FALSE) ELSE Return(~r.value)

\* !evaluateCondition(condition.not)
negate(r) == IF r.threw THEN r ELSE Return(~r.value)

\* a key that is present holds an array or an object, which is truthy
evaluateComplexCondition(condition, d, context) ==
    IF "all" \in DOMAIN condition THEN every(condition.all, d, context)
    ELSE IF "any" \in DOMAIN condition THEN some(condition.any, d, context)
    ELSE IF "not" \in DOMAIN condition
         THEN negate(evaluateCondition(condition.not, d, context))
    ELSE Return(FALSE)

evaluateCondition(condition, d, context) ==
    IF isSimpleCondition(condition)
    THEN evaluateSimpleCondition(condition, d, context)
    ELSE evaluateComplexCondition(condition, d, context)

-----------------------------------------------------------------------------
(* Expression evaluator *)

\* /^[\d\s+\-*/(). ]+$/.test(expression), for the model's expressions
isSimpleMathExpression(expression) == expression \in {"1 + 1", "1 +"}

\* Date.now(): the clock of the state the expression is evaluated in
DateNow == clock

\* ExpressionEvaluatorImpl.evaluate. The parsers are libraries; the model's
\* expressions are "1 + 1" (arithmetic, handled by expr-eval), "1 +" (a
\* syntax error), "now()" (the function setupJexl registers, handled by
\* jexl) and bare identifiers (handled by jexl, which resolves an identifier
\* in the flat context and gives undefined when it is missing).
evaluate(expression, flat) ==
    IF isSimpleMathExpression(expression)
    THEN (IF expression = "1 + 1" THEN Return(Num(2))
          ELSE Throw("Expression evaluation failed"))
    ELSE IF expression = "now()" THEN Return(Num(DateNow))
    ELSE Return(IF expression \in DOMAIN flat.v THEN flat.v[expression]
                ELSE Undef)

-----------------------------------------------------------------------------
(* One evaluation of an arithmetic expression, term by term. The expression *)
(* is 1 followed by terms times "+ 1": isSimpleMathExpression accepts it    *)
(* and expr-eval evaluates it. The evaluation is one synchronous call; the  *)
(* time it takes is the time of its terms, a millisecond or less each.      *)

\* "Expressions timeout after 100ms"
ExpressionTimeoutMs == 100

\* the longest expression has one term more than the timeout has milliseconds
MaxTerms == ExpressionTimeoutMs + 1

\* the time one term takes, in milliseconds
TermTimes == {0, 1}

ExprInit ==
    /\ terms = 0
    /\ termsDone = 0
    /\ elapsed = 0
    /\ exprPc = "written"
    /\ exprOut = Return(Undef)

ExprIdle ==
    /\ terms = 0
    /\ termsDone = 0
    /\ elapsed = 0
    /\ exprPc = "idle"
    /\ exprOut = Return(Undef)

\* the rule author makes the expression one term longer
AddTerm ==
    /\ exprPc = "written"
    /\ terms < MaxTerms
    /\ terms' = terms + 1
    /\ UNCHANGED <<notExprVars, termsDone, elapsed, exprPc, exprOut>>

\* a set or calculate action calls evaluate(expression, context)
CallParser ==
    /\ exprPc = "written"
    /\ exprPc' = "evaluating"
    /\ UNCHANGED <<notExprVars, terms, termsDone, elapsed, exprOut>>

\* the parser evaluates the next term; nothing looks at the time spent
EvaluateTerm ==
    /\ exprPc = "evaluating"
    /\ termsDone < terms
    /\ termsDone' = termsDone + 1
    /\ \E ms \in TermTimes : elapsed' = elapsed + ms
    /\ UNCHANGED <<notExprVars, terms, exprPc, exprOut>>

\* the parser is through and evaluate returns the value
ReturnValue ==
    /\ exprPc = "evaluating"
    /\ termsDone = terms
    /\ exprOut' = Return(Num(1 + terms))
    /\ exprPc' = "returned"
    /\ UNCHANGED <<notExprVars, terms, termsDone, elapsed>>

-----------------------------------------------------------------------------
(* Action execution *)

\* JavaScript falsiness
Falsy(x) ==
    \/ x.t = "undefined"
    \/ x.t = "num" /\ x.v = 0
    \/ x.t = "str" /\ x.v = <<>>

\* obj[key] = value on the keys of a plain object
Assign(f, key, value) ==
    [k \in (DOMAIN f) \cup {key} |-> IF k = key THEN value ELSE f[k]]

\* delete obj[key]
Delete(f, key) == [k \in (DOMAIN f) \ {key} |-> f[k]]

\* { ...a, ...b } : the keys of b win
Spread(a, b) ==
    Map([k \in (DOMAIN a.v) \cup (DOMAIN b.v) |->
            IF k \in DOMAIN b.v THEN b.v[k] ELSE a.v[k]])

RECURSIVE setFieldValue(_, _, _)
\* Walks the segments; a missing or falsy intermediate segment is replaced by
\* {}. Writing a property on a number or a string throws a TypeError (module
\* code is strict). The result is the record after the call. An array met on
\* the way is left as it is: the model gives arrays no named properties.
setFieldValue(parts, value, obj) ==
    CASE obj.t \in {"num", "str"} -> Throw("TypeError: Cannot create property")
      [] obj.t = "arr" -> Return(obj)
      [] OTHER ->
          IF Len(parts) = 1
          THEN Return(Map(Assign(obj.v, parts[1], value)))
          ELSE LET child == Prop(obj, parts[1])
                   next == IF Falsy(child) THEN EmptyObject ELSE child
                   r == setFieldValue(Tail(parts), value, next)
               IN IF r.threw THEN r
                  ELSE Return(Map(Assign(obj.v, parts[1], r.value)))

RECURSIVE ReplaceAt(_, _, _)
\* the object with the value at an existing path replaced
ReplaceAt(obj, path, value) ==
    IF path = <<>> THEN value
    ELSE Map(Assign(obj.v, Head(path),
                    ReplaceAt(obj.v[Head(path)], Tail(path), value)))

\* state of an executeActions call: the record and the context as the actions
\* left them, the count, and whether an action threw
ActionState(d, context, n, threw, message) ==
    [data |-> d, context |-> context, executed |-> n,
     threw |-> threw, message |-> message]

\* action.field && ... : the field is present and not the empty string
HasField(action) == "field" \in DOMAIN action /\ action.field # <<>>
HasValue(action) == "value" \in DOMAIN action /\ action.value.t # "undefined"
HasExpression(action) == "expression" \in DOMAIN action /\ action.expression # ""

\* set / calculate with an expression
applyExpression(action, st) ==
    LET e == evaluate(action.expression, Spread(st.data, st.context))
        w == setFieldValue(action.field, e.value, st.data)
    IN IF e.threw THEN [st EXCEPT !.threw = TRUE, !.message = e.message]
       ELSE IF w.threw THEN [st EXCEPT !.threw = TRUE, !.message = w.message]
       ELSE [st EXCEPT !.data = w.value, !.executed = @ + 1]

\* one iteration of the loop of executeActions
applyAction(action, st) ==
    CASE action.type = "set" ->
            IF HasField(action) /\ HasValue(action)
            THEN LET w == setFieldValue(action.field, action.value, st.data)
                 IN IF w.threw
                    THEN [st EXCEPT !.threw = TRUE, !.message = w.message]
                    ELSE [st EXCEPT !.data = w.value, !.executed = @ + 1]
            ELSE IF HasField(action) /\ HasExpression(action)
            THEN applyExpression(action, st)
            ELSE st
      [] action.type = "append" ->
            IF HasField(action) /\ HasValue(action)
            THEN LET current == getFieldValue(action.field, st.data, st.context)
                     pushed == Arr(Append(current.v, action.value))
                     inContext == Len(action.field) > 1
                                  /\ Head(action.field) = "context"
                 IN IF current.t # "arr" THEN st
                    ELSE IF inContext
                    THEN [st EXCEPT
                            !.context = ReplaceAt(@, Tail(action.field), pushed),
                            !.executed = @ + 1]
                    ELSE [st EXCEPT
                            !.data = ReplaceAt(@, action.field, pushed),
                            !.executed = @ + 1]
            ELSE st
      [] action.type = "remove" ->
            \* delete data[action.field]: the whole field string is the key, so
            \* a dotted path names no key of the model's records
            IF HasField(action)
            THEN [st EXCEPT
                    !.data = IF Len(action.field) = 1
                             THEN Map(Delete(@.v, action.field[1])) ELSE @,
                    !.executed = @ + 1]
            ELSE st
      [] action.type = "calculate" ->
            IF HasField(action) /\ HasExpression(action)
            THEN applyExpression(action, st)
            ELSE st
      [] OTHER -> st

RECURSIVE runActionsPastThrow(_, _)
\* a loop that logs the throw of an action and goes on with the next one
runActionsPastThrow(actions, st) ==
    IF actions = <<>> THEN st
    ELSE runActionsPastThrow(Tail(actions), applyAction(Head(actions), st))

RECURSIVE runActions(_, _)
\* the loop of executeActions: a throw ends it, what was applied stays
runActions(actions, st) ==
    IF actions = <<>> \/ st.threw THEN st
    ELSE runActions(Tail(actions), applyAction(Head(actions), st))

executeActions(actions, d, context) ==
    runActions(actions, ActionState(d, context, 0, FALSE, ""))

-----------------------------------------------------------------------------
(* Scope filter and priority sort *)
\* the role list checked against context.role, a key the context does not have
ruleInScopeRoleKey(rule, context) ==
    IF ~rule.enabled THEN FALSE
    ELSE IF "scope" \notin DOMAIN rule THEN TRUE
    ELSE LET scope == rule.scope
             Restricts(dim) == dim \in DOMAIN scope /\ Len(scope[dim]) > 0
         IN /\ Restricts("programId") =>
                  ~(Falsy(Prop(context, "programId"))
                    \/ ~Includes(scope.programId, Prop(context, "programId")))
            /\ Restricts("issuerId") =>
                  ~(Falsy(Prop(context, "issuerId"))
                    \/ ~Includes(scope.issuerId, Prop(context, "issuerId")))
            /\ Restricts("country") =>
                  Includes(scope.country, Prop(context, "country"))
            /\ Restricts("role") =>
                  Includes(scope.role, Prop(context, "role"))

\* the callback of rules.filter
ruleInScope(rule, context) ==
    IF ~rule.enabled THEN FALSE
    ELSE IF "scope" \notin DOMAIN rule THEN TRUE
    ELSE LET scope == rule.scope
             Restricts(dim) == dim \in DOMAIN scope /\ Len(scope[dim]) > 0
         IN /\ Restricts("programId") =>
                  ~(Falsy(Prop(context, "programId"))
                    \/ ~Includes(scope.programId, Prop(context, "programId")))
            /\ Restricts("issuerId") =>
                  ~(Falsy(Prop(context, "issuerId"))
                    \/ ~Includes(scope.issuerId, Prop(context, "issuerId")))
            /\ Restricts("country") =>
                  Includes(scope.country, Prop(context, "country"))
            /\ Restricts("role") =>
                  Includes(scope.role, Prop(context, "userRole"))

filterRulesByScope(rules, context) ==
    SelectSeq(rules, LAMBDA rule : ruleInScope(rule, context))
\* the comparator with its operands swapped
comparePriorityAscending(a, b) == a.priority - b.priority

\* the comparator (a, b) => b.priority - a.priority
comparePriority(a, b) == b.priority - a.priority

RECURSIVE insertStable(_, _)
\* x put into a sorted list after every element that does not compare
\* greater than it
insertStable(sorted, x) ==
    IF sorted = <<>> THEN <<x>>
    ELSE IF comparePriority(Head(sorted), x) > 0 THEN <<x>> \o sorted
    ELSE <<Head(sorted)>> \o insertStable(Tail(sorted), x)

RECURSIVE stableSort(_)
\* Array.prototype.sort, which is stable
stableSort(s) ==
    IF s = <<>> THEN <<>>
    ELSE insertStable(stableSort(SubSeq(s, 1, Len(s) - 1)), s[Len(s)])

\* [...rules].sort(...): sort works in place, on the copy. The call gives what
\* it returns and what it leaves in the array it was handed.
sortRulesByPriority(rules) ==
    LET copy == rules
    IN [returned |-> stableSort(copy), argument |-> rules]

-----------------------------------------------------------------------------
(* The execution context of the engine's tests (mockContext) *)

TestContext ==
    Map([userRole |-> Str(<<"A", "D", "M", "I", "N">>),
         country |-> Str(<<"D", "E">>),
         programId |-> Str(<<"1", "2", "3">>),
         issuerId |-> Str(<<"I", "S", "S", "U", "E", "R">>),
         correlationId |-> Str(<<"c", "i", "d">>),
         data |-> EmptyObject])

-----------------------------------------------------------------------------
(* Condition evaluation on its own: a condition is built by wrapping, then  *)
(* evaluated as c and as {not: {not: c}} against a record                   *)

SimpleCondition(f, o, x) == [field |-> f, op |-> o, value |-> x]

CondEq1 == SimpleCondition(<<"a">>, "eq", Num(1))
CondLt1 == SimpleCondition(<<"a">>, "lt", Num(1))
CondIn == SimpleCondition(<<"a">>, "in", Arr(<<Num(0), Num(1)>>))
CondCountry == SimpleCondition(<<"context", "country">>, "eq", Str(<<"D", "E">>))
CondUnknownOp == SimpleCondition(<<"a">>, "between", Num(1))
CondBadRegExp == SimpleCondition(<<"a">>, "matches", Str(<<"(", "1">>))

\* conditions the wrapping starts from: simple ones, complex ones with none,
\* one (empty) or several of all / any / not populated
BaseConditions ==
    {CondEq1, CondLt1, CondIn, CondCountry, CondUnknownOp, CondBadRegExp,
     <<>>, [all |-> <<>>], [any |-> <<>>],
     [all |-> <<CondEq1>>, any |-> <<CondLt1>>],
     [any |-> <<CondEq1>>, not |-> CondEq1]}

\* conditions put beside the wrapped one in an all / any list
SiblingConditions == {CondEq1, CondLt1, CondUnknownOp}

CondRecords == {Map([a |-> Num(0)]), Map([a |-> Num(1)]), EmptyObject}

NotEvaluated == [threw |-> FALSE, value |-> FALSE, message |-> "not evaluated"]

RECURSIVE NestingDepth(_)
RECURSIVE MaxNesting(_)
MaxNesting(cs) ==
    IF cs = <<>> THEN 0
    ELSE LET h == NestingDepth(Head(cs))
             r == MaxNesting(Tail(cs))
         IN IF h > r THEN h ELSE r
NestingDepth(c) ==
    IF isSimpleCondition(c) THEN 0
    ELSE 1 + MaxNesting(
             (IF "all" \in DOMAIN c THEN c.all ELSE <<>>)
             \o (IF "any" \in DOMAIN c THEN c.any ELSE <<>>)
             \o (IF "not" \in DOMAIN c THEN <<c.not>> ELSE <<>>))

CondInit ==
    /\ cond \in BaseConditions
    /\ condData \in CondRecords
    /\ condOut = NotEvaluated
    /\ condOutNotNot = NotEvaluated

CondIdle ==
    /\ cond = <<>>
    /\ condData = EmptyObject
    /\ condOut = NotEvaluated
    /\ condOutNotNot = NotEvaluated

CanWrap == condOut = NotEvaluated /\ NestingDepth(cond) < MaxCondDepth

WrapNot ==
    /\ CanWrap
    /\ cond' = [not |-> cond]
    /\ UNCHANGED <<notCondVars, condData, condOut, condOutNotNot>>

WrapAll ==
    /\ CanWrap
    /\ \/ cond' = [all |-> <<cond>>]
       \/ \E s \in SiblingConditions :
             cond' \in {[all |-> <<cond, s>>], [all |-> <<s, cond>>]}
    /\ UNCHANGED <<notCondVars, condData, condOut, condOutNotNot>>

WrapAny ==
    /\ CanWrap
    /\ \/ cond' = [any |-> <<cond>>]
       \/ \E s \in SiblingConditions :
             cond' \in {[any |-> <<cond, s>>], [any |-> <<s, cond>>]}
    /\ UNCHANGED <<notCondVars, condData, condOut, condOutNotNot>>

Evaluate ==
    /\ condOut = NotEvaluated
    /\ condOut' = evaluateCondition(cond, condData, TestContext)
    /\ condOutNotNot' =
          evaluateCondition([not |-> [not |-> cond]], condData, TestContext)
    /\ UNCHANGED <<notCondVars, cond, condData>>

-----------------------------------------------------------------------------
(* Field resolution and the ordering operators on their own: a simple       *)
(* condition on one field of a record, evaluated once                       *)

LookupRecords ==
    {EmptyObject,
     Map([a |-> Num(1)]),
     Map([a |-> Num(1), m |-> Map([a |-> Num(0)])]),
     Map([a |-> Str(<<"b">>), m |-> EmptyObject])}

\* paths into the record and, with the context prefix, into the context
LookupFields ==
    {<<"a">>, <<"q">>, <<"q", "r">>, <<"m", "a">>, <<"m", "q">>,
     <<"m", "q", "r">>, <<"a", "q">>, <<"constructor">>, <<"m", "constructor">>,
     <<"context", "country">>, <<"context", "q">>, <<"context", "q", "r">>,
     <<"context", "data", "q">>}

OrderingOps == {"gt", "gte", "lt", "lte"}

LookupLiterals ==
    {Num(0), Num(1), Str(<<>>), Str(<<"0">>), Str(<<"b">>), Arr(<<>>),
     Arr(<<Num(1)>>), EmptyObject}

LookupInit ==
    /\ lookupRecord \in LookupRecords
    /\ lookupCondition \in
          {SimpleCondition(f, o, x) :
              f \in LookupFields, o \in OrderingOps, x \in LookupLiterals}
    /\ lookupValue = NotEvaluated
    /\ lookupOut = NotEvaluated

LookupIdle ==
    /\ lookupRecord = EmptyObject
    /\ lookupCondition = <<>>
    /\ lookupValue = NotEvaluated
    /\ lookupOut = NotEvaluated

\* evaluateSimpleCondition(condition, data, context), with the value its
\* first line resolves
EvaluateSimple ==
    /\ lookupOut = NotEvaluated
    /\ lookupValue' =
          Return(getFieldValue(lookupCondition.field, lookupRecord, TestContext))
    /\ lookupOut' =
          evaluateSimpleCondition(lookupCondition, lookupRecord, TestContext)
    /\ UNCHANGED <<notLookupVars, lookupRecord, lookupCondition>>

-----------------------------------------------------------------------------
(* The recursion of condition evaluation, one call of evaluateCondition per *)
(* step: callStack holds the calls that are active, the innermost last.     *)
(* A frame is the condition of the call and the children of its all / any   *)
(* list that every / some has not reached yet.                              *)

\* the nesting depth the specification names as the limit ("e.g., 32 levels");
\* the engine has no such parameter
DepthLimit == 32

\* the deepest tree built has one wrapper more than the limit
MaxLevels == DepthLimit + 1

DepthBases ==
    {CondEq1, CondLt1, CondUnknownOp, <<>>, [all |-> <<>>],
     [all |-> <<CondEq1, CondLt1>>], [any |-> <<CondLt1, CondEq1>>],
     [all |-> <<CondEq1, CondUnknownOp>>]}

DepthRecords == {Map([a |-> Num(0)]), Map([a |-> Num(1)])}

\* the list evaluateComplexCondition goes through: all before any before not
Children(condition) ==
    IF isSimpleCondition(condition) THEN <<>>
    ELSE IF "all" \in DOMAIN condition THEN condition.all
    ELSE IF "any" \in DOMAIN condition THEN condition.any
    ELSE IF "not" \in DOMAIN condition THEN <<condition.not>>
    ELSE <<>>

Frame(condition) ==
    [condition |-> condition,
     rest |-> IF Children(condition) = <<>> THEN <<>>
              ELSE Tail(Children(condition))]

Top == callStack[Len(callStack)]
Pop == SubSeq(callStack, 1, Len(callStack) - 1)

\* the call on top has just been entered
Entered == callStack # <<>> /\ returned = NotEvaluated
\* the call on top has its child's outcome in hand
Resumed == callStack # <<>> /\ returned # NotEvaluated
Building == callStack = <<>> /\ returned = NotEvaluated

\* every / some go on to the next child: the child did not throw, did not
\* decide the list, and is not the last one
GoesOn(frame, r) ==
    /\ ~r.threw
    /\ frame.rest # <<>>
    /\ \/ "all" \in DOMAIN frame.condition /\ r.value
       \/ /\ "all" \notin DOMAIN frame.condition
          /\ "any" \in DOMAIN frame.condition
          /\ ~r.value

\* what the call returns once its list is decided
Decided(frame, r) ==
    IF "all" \in DOMAIN frame.condition
    THEN IF r.threw THEN r
         ELSE IF ~r.value THEN Return(FALSE)
         ELSE Return(TRUE)
    ELSE IF "any" \in DOMAIN frame.condition
    THEN IF r.threw THEN r
         ELSE IF r.value THEN Return(TRUE)
         ELSE Return(FALSE)
    ELSE negate(r)

DepthInit ==
    /\ tree \in DepthBases
    /\ treeData \in DepthRecords
    /\ levels = 0
    /\ callStack = <<>>
    /\ returned = NotEvaluated

DepthIdle ==
    /\ tree = <<>>
    /\ treeData = EmptyObject
    /\ levels = 0
    /\ callStack = <<>>
    /\ returned = NotEvaluated

\* the rule author wraps the condition in one more not
NestNot ==
    /\ Building
    /\ levels < MaxLevels
    /\ tree' = [not |-> tree]
    /\ levels' = levels + 1
    /\ UNCHANGED <<notDepthVars, treeData, callStack, returned>>

\* execute calls evaluateCondition(rule.when, data, context)
CallEvaluate ==
    /\ Building
    /\ callStack' = <<Frame(tree)>>
    /\ UNCHANGED <<notDepthVars, tree, treeData, levels, returned>>

\* a call with no child to evaluate returns: a simple condition, an empty
\* list, or a condition with none of all / any / not
ReturnLeaf ==
    /\ Entered
    /\ Children(Top.condition) = <<>>
    /\ returned' = evaluateCondition(Top.condition, treeData, TestContext)
    /\ callStack' = Pop
    /\ UNCHANGED <<notDepthVars, tree, treeData, levels>>

\* a call with children calls evaluateCondition on the first of them
Recurse ==
    /\ Entered
    /\ Children(Top.condition) # <<>>
    /\ callStack' = Append(callStack, Frame(Head(Children(Top.condition))))
    /\ UNCHANGED <<notDepthVars, tree, treeData, levels, returned>>

\* every / some call evaluateCondition on the next child
NextChild ==
    /\ Resumed
    /\ GoesOn(Top, returned)
    /\ callStack' =
          Append([callStack EXCEPT ![Len(callStack)].rest = Tail(@)],
                 Frame(Head(Top.rest)))
    /\ returned' = NotEvaluated
    /\ UNCHANGED <<notDepthVars, tree, treeData, levels>>

\* the call returns to its caller
ReturnUp ==
    /\ Resumed
    /\ ~GoesOn(Top, returned)
    /\ returned' = Decided(Top, returned)
    /\ callStack' = Pop
    /\ UNCHANGED <<notDepthVars, tree, treeData, levels>>

-----------------------------------------------------------------------------
(* Rules and rulesets of the execute() model *)

RuleIds == <<"R1", "R2", "R3", "R4", "R5">>

Rule(enabled, when, then, priority, stopOnMatch) ==
    [enabled |-> enabled, when |-> when, then |-> then,
     priority |-> priority, stopOnMatch |-> stopOnMatch]

ScopedRule(enabled, scope, when, then, priority, stopOnMatch) ==
    [enabled |-> enabled, scope |-> scope, when |-> when, then |-> then,
     priority |-> priority, stopOnMatch |-> stopOnMatch]

\* the rule with its id
WithId(rule, id) ==
    [k \in (DOMAIN rule) \cup {"ruleId"} |->
        IF k = "ruleId" THEN id ELSE rule[k]]

\* the rules with the ids R1, R2, ... in list order
Numbered(rules) == [i \in 1..Len(rules) |-> WithId(rules[i], RuleIds[i])]

SetA == [type |-> "set", field |-> <<"a">>, value |-> Num(1)]
SetB == [type |-> "set", field |-> <<"b">>, value |-> Num(1)]
CalcBad == [type |-> "calculate", field |-> <<"b">>, expression |-> "1 +"]

\* action lists: one that succeeds, one whose second action throws
ThenLists == {<<SetA>>, <<SetB, CalcBad, SetA>>}

WhenConditions == {CondEq1, CondLt1, CondUnknownOp, CondBadRegExp}

Priorities == {10, 20}

Strategies == {"first-match", "all", "priority-order"}

\* rules the scope filter keeps for TestContext
ApplicableRules ==
    {Rule(TRUE, w, t, p, s) :
        w \in WhenConditions, t \in ThenLists, p \in Priorities, s \in BOOLEAN}

\* rules the scope filter drops for TestContext: a disabled one, and one
\* scoped to another country
DroppedRules ==
    {Rule(FALSE, CondLt1, <<SetA>>, 20, TRUE),
     ScopedRule(TRUE, [country |-> <<Str(<<"U", "S">>)>>],
                CondLt1, <<SetA>>, 20, TRUE)}

\* a rule whose condition reads the field the failing action list writes
\* before it throws
CondB1 == SimpleCondition(<<"b">>, "eq", Num(1))
FollowUpRules == {Rule(TRUE, CondB1, <<SetA>>, p, FALSE) : p \in Priorities}

RulePool == ApplicableRules \cup DroppedRules \cup FollowUpRules

RECURSIVE SeqsUpTo(_, _)
\* the sequences over S of length at most n
SeqsUpTo(S, n) ==
    IF n = 0 THEN {<<>>}
    ELSE LET shorter == SeqsUpTo(S, n - 1)
         IN shorter \cup {Append(q, x) : q \in shorter, x \in S}

RuleSets ==
    {[ruleSetId |-> "RS1", strategy |-> st, rules |-> Numbered(rs)] :
        st \in Strategies, rs \in SeqsUpTo(RulePool, MaxRules)}

\* the context of the execute() model: TestContext with a record in it
ExecContext == Map(Assign(TestContext.v, "data", Map([a |-> Num(0)])))

Requests ==
    {[ruleSetId |-> "RS1", context |-> ExecContext],
     [ruleSetId |-> "RS1", context |-> ExecContext, data |-> Map([a |-> Num(1)])],
     [ruleSetId |-> "RS2", context |-> ExecContext, data |-> Map([a |-> Num(1)])],
     [context |-> ExecContext],
     [ruleSetId |-> "RS1"]}

-----------------------------------------------------------------------------
(* RuleEngine.execute, one call. The call is cut at its awaits (the ruleset *)
(* load, the actions of a matched rule) and, finer than that, at every loop *)
(* iteration.                                                               *)

Null == [ruleSetId |-> "null", strategy |-> "", rules |-> <<>>]
NoPending == ActionState(EmptyObject, EmptyObject, 0, FALSE, "none")
NoResult == [kind |-> "pending"]

HasContext(req) == "context" \in DOMAIN req
\* `${request.ruleSetId}` in the URL of the config service
RequestedId(req) ==
    IF "ruleSetId" \in DOMAIN req THEN req.ruleSetId ELSE "undefined"
RequestData(req) == IF "data" \in DOMAIN req THEN req.data ELSE EmptyObject
ContextData(context) ==
    IF Prop(context, "data").t = "map" THEN Prop(context, "data") ELSE EmptyObject

ErrorEntry(id, message) == [ruleId |-> id, error |-> message]
\* the catch block recording a plain unmatched entry
ErrorTraceWithoutError(rule, message) ==
    [ruleId |-> rule.ruleId, matched |-> FALSE, conditionResult |-> FALSE]

ErrorTrace(rule, message) ==
    [ruleId |-> rule.ruleId, matched |-> FALSE, error |-> message]
ConditionTrace(rule, conditionResult) ==
    [ruleId |-> rule.ruleId, matched |-> conditionResult,
     conditionResult |-> conditionResult]
MatchedTrace(rule, actionsExecuted) ==
    [ruleId |-> rule.ruleId, matched |-> TRUE, conditionResult |-> TRUE,
     actionsExecuted |-> actionsExecuted]

\* the result built after the loop; errors is left out when there are none
PassResult(d, trace, errs, evaluated, matched) ==
    LET base == [kind |-> "returned", success |-> errs = <<>>, data |-> d,
                 executionTrace |-> trace,
                 metadata |-> [rulesEvaluated |-> evaluated,
                               rulesMatched |-> matched]]
    IN IF errs = <<>> THEN base
       ELSE [k \in (DOMAIN base) \cup {"errors"} |->
                IF k = "errors" THEN errs ELSE base[k]]
\* a missing ruleset reported as an empty pass
FatalResultAsEmptyPass(d, trace, message) == PassResult(d, trace, <<>>, 0, 0)

\* the result built by the outer catch
FatalResult(d, trace, message) ==
    [kind |-> "returned", success |-> FALSE, data |-> d,
     executionTrace |-> trace,
     errors |-> <<ErrorEntry("SYSTEM", message)>>,
     metadata |-> [rulesEvaluated |-> 0, rulesMatched |-> 0]]

\* RuleStorage.getRuleSet on the storage loadRuleSet creates for the call: its
\* cache is empty, so the config service is asked; a ruleset it does not hold
\* and a failed request both give null
getRuleSet(ruleSetId, reachable) ==
    IF reachable /\ ruleSetId \in DOMAIN configService
    THEN configService[ruleSetId] ELSE Null

loadRuleSet(ruleSetId, reachable) == getRuleSet(ruleSetId, reachable)

\* lines 36-46 with a request that has no context: destructuring gives
\* undefined and context.data throws before the try block is entered
EnterWithoutContext ==
    /\ pc = "Start"
    /\ ~HasContext(request)
    /\ pc' = "Rejected"
    /\ result' = [kind |-> "rejected", message |-> "TypeError"]
    /\ UNCHANGED <<notExecVars, request, configService, ruleSet, data, sortedRules, idx,
                   pending, executionTrace, errors, rulesMatched>>

\* lines 36-50: the working record is { ...context.data, ...requestData }
Enter ==
    /\ pc = "Start"
    /\ HasContext(request)
    /\ data' = Spread(ContextData(request.context), RequestData(request))
    /\ executionTrace' = <<>>
    /\ errors' = <<>>
    /\ pc' = "Loading"
    /\ UNCHANGED <<notExecVars, request, configService, ruleSet, sortedRules, idx, pending,
                   rulesMatched, result>>

\* lines 50-54, 139-159: loadRuleSet gives null
RuleSetNotFound ==
    /\ pc = "Loading"
    /\ \E reachable \in BOOLEAN :
          /\ loadRuleSet(RequestedId(request), reachable) = Null
          /\ ruleSet' = Null
    /\ result' = FatalResult(data, executionTrace, "RuleSet not found")
    /\ pc' = "Aborted"
    /\ UNCHANGED <<notExecVars, request, configService, data, sortedRules, idx, pending,
                   executionTrace, errors, rulesMatched>>

\* lines 50-65: the ruleset is there; filter, sort, enter the loop
RuleSetLoaded ==
    /\ pc = "Loading"
    /\ loadRuleSet(RequestedId(request), TRUE) # Null
    /\ ruleSet' = loadRuleSet(RequestedId(request), TRUE)
    /\ sortedRules' = sortRulesByPriority(
                          filterRulesByScope(ruleSet'.rules, request.context)
                      ).returned
    /\ rulesMatched' = 0
    /\ idx' = 1
    /\ pc' = "Evaluating"
    /\ UNCHANGED <<notExecVars, request, configService, data, pending, executionTrace,
                   errors, result>>

InLoop == pc = "Evaluating" /\ idx <= Len(sortedRules)
CurrentRule == sortedRules[idx]
\* the condition evaluated on the record the pass started from
CurrentConditionOnFirstRecord ==
    evaluateCondition(CurrentRule.when,
                      Spread(ContextData(request.context), RequestData(request)),
                      request.context)

CurrentCondition == evaluateCondition(CurrentRule.when, data, request.context)

\* lines 70-72, 99-115: the condition throws
ConditionThrows ==
    /\ InLoop
    /\ CurrentCondition.threw
    /\ errors' = Append(errors, ErrorEntry(CurrentRule.ruleId,
                                           CurrentCondition.message))
    /\ executionTrace' = Append(executionTrace,
                                ErrorTrace(CurrentRule, CurrentCondition.message))
    /\ idx' = idx + 1
    /\ UNCHANGED <<notExecVars, request, configService, pc, ruleSet, data, sortedRules,
                   pending, rulesMatched, result>>

\* a rule whose condition is false running its actions all the same
ConditionFalseRunsActions ==
    /\ InLoop
    /\ ~CurrentCondition.threw /\ ~CurrentCondition.value
    /\ data' = executeActions(CurrentRule.then, data, request.context).data
    /\ executionTrace' = Append(executionTrace, ConditionTrace(CurrentRule, FALSE))
    /\ idx' = idx + 1
    /\ UNCHANGED <<notExecVars, request, configService, pc, ruleSet, sortedRules,
                   pending, errors, rulesMatched, result>>

\* lines 70-82, 97: the condition is false
ConditionFalse ==
    /\ InLoop
    /\ ~CurrentCondition.threw /\ ~CurrentCondition.value
    /\ executionTrace' = Append(executionTrace, ConditionTrace(CurrentRule, FALSE))
    /\ idx' = idx + 1
    /\ UNCHANGED <<notExecVars, request, configService, pc, ruleSet, data, sortedRules,
                   pending, errors, rulesMatched, result>>

\* lines 70-84: the condition is true; executeActions runs to its end (it has
\* no await of its own) and the call waits for its promise
ConditionTrue ==
    /\ InLoop
    /\ ~CurrentCondition.threw /\ CurrentCondition.value
    /\ pending' = executeActions(CurrentRule.then, data, request.context)
    /\ data' = pending'.data
    /\ request' = [request EXCEPT !.context = pending'.context]
    /\ pc' = "AwaitActions"
    /\ UNCHANGED <<notExecVars, configService, ruleSet, sortedRules, idx, executionTrace,
                   errors, rulesMatched, result>>
\* a rejected executeActions promise ending the loop
ActionsThrewEndsLoop ==
    /\ pc = "AwaitActions"
    /\ pending.threw
    /\ errors' = Append(errors, ErrorEntry(CurrentRule.ruleId, pending.message))
    /\ executionTrace' = Append(executionTrace,
                                ErrorTrace(CurrentRule, pending.message))
    /\ pc' = "Stopped"
    /\ pending' = NoPending
    /\ UNCHANGED <<notExecVars, request, configService, ruleSet, data,
                   sortedRules, idx, rulesMatched, result>>

\* lines 84, 99-115: the promise of executeActions is rejected
ActionsThrew ==
    /\ pc = "AwaitActions"
    /\ pending.threw
    /\ errors' = Append(errors, ErrorEntry(CurrentRule.ruleId, pending.message))
    /\ executionTrace' = Append(executionTrace,
                                ErrorTrace(CurrentRule, pending.message))
    /\ idx' = idx + 1
    /\ pc' = "Evaluating"
    /\ pending' = NoPending
    /\ UNCHANGED <<notExecVars, request, configService, ruleSet, data, sortedRules,
                   rulesMatched, result>>
\* only the strategy all goes on after a match
StopsHereUnlessAll == CurrentRule.stopOnMatch \/ ruleSet.strategy # "all"

StopsHere == CurrentRule.stopOnMatch \/ ruleSet.strategy = "first-match"

\* lines 84-97: the actions are done and the loop goes on
ActionsDone ==
    /\ pc = "AwaitActions"
    /\ ~pending.threw
    /\ ~StopsHere
    /\ executionTrace' = Append(executionTrace,
                                MatchedTrace(CurrentRule, pending.executed))
    /\ rulesMatched' = rulesMatched + 1
    /\ idx' = idx + 1
    /\ pc' = "Evaluating"
    /\ pending' = NoPending
    /\ UNCHANGED <<notExecVars, request, configService, ruleSet, data, sortedRules, errors,
                   result>>

\* lines 84-94: the actions are done and the rule or the strategy stops the loop
ActionsDoneStop ==
    /\ pc = "AwaitActions"
    /\ ~pending.threw
    /\ StopsHere
    /\ executionTrace' = Append(executionTrace,
                                MatchedTrace(CurrentRule, pending.executed))
    /\ rulesMatched' = rulesMatched + 1
    /\ pc' = "Stopped"
    /\ pending' = NoPending
    /\ UNCHANGED <<notExecVars, request, configService, ruleSet, data, sortedRules, idx,
                   errors, result>>

\* lines 118-137: after the loop
Finish ==
    /\ \/ pc = "Evaluating" /\ idx > Len(sortedRules)
       \/ pc = "Stopped"
    /\ result' = PassResult(data, executionTrace, errors,
                            Len(sortedRules), rulesMatched)
    /\ pc' = "Done"
    /\ UNCHANGED <<notExecVars, request, configService, ruleSet, data, sortedRules, idx,
                   pending, executionTrace, errors, rulesMatched>>

ExecInit ==
    /\ request \in Requests
    /\ \E rs \in RuleSets : configService = [RS1 |-> rs]
    /\ pc = "Start"
    /\ ruleSet = Null
    /\ data = EmptyObject
    /\ sortedRules = <<>>
    /\ idx = 0
    /\ pending = NoPending
    /\ executionTrace = <<>>
    /\ errors = <<>>
    /\ rulesMatched = 0
    /\ result = NoResult

ExecIdle ==
    /\ request = [ruleSetId |-> "RS1"]
    /\ configService = <<>>
    /\ pc = "Idle"
    /\ ruleSet = Null
    /\ data = EmptyObject
    /\ sortedRules = <<>>
    /\ idx = 0
    /\ pending = NoPending
    /\ executionTrace = <<>>
    /\ errors = <<>>
    /\ rulesMatched = 0
    /\ result = NoResult

ExecNext ==
    \/ EnterWithoutContext
    \/ Enter
    \/ RuleSetNotFound
    \/ RuleSetLoaded
    \/ ConditionThrows
    \/ ConditionFalse
    \/ ConditionTrue
    \/ ActionsThrew
    \/ ActionsDone
    \/ ActionsDoneStop
    \/ Finish

-----------------------------------------------------------------------------
(* Ruleset loads of one engine over time: RuleEngine.loadRuleSet and        *)
(* RuleStorage.getRuleSet with its cache. The clock is Date.now(), in       *)
(* milliseconds, and advances by minutes.                                   *)

Minute == 60 * 1000
\* private cacheTTL = 5 * 60 * 1000
cacheTTL == 5 * 60 * 1000

\* private cache = new Map(): the cache of a storage that was just created
NewCache == <<>>

StoredIds == {"RS1", "RS2"}
\* what the config service holds under an id
StoredRuleSet(ruleSetId) ==
    [ruleSetId |-> ruleSetId, strategy |-> "all", rules |-> <<>>]

\* outcomes of axios.get: a body with success and data, a body without, a
\* request that fails
Responses == {"data", "no data", "failed"}

\* RuleStorage.getRuleSet on a storage whose cache is the given one, at time
\* t: the ruleset returned (or null), the cache afterwards, and whether the
\* config service was asked
getRuleSetCached(cache, ruleSetId, t, response) ==
    IF ruleSetId \in DOMAIN cache /\ t - cache[ruleSetId].timestamp < cacheTTL
    THEN [returned |-> cache[ruleSetId].data, cache |-> cache,
          requested |-> FALSE]
    ELSE IF response = "data"
    THEN [returned |-> StoredRuleSet(ruleSetId),
          cache |-> Assign(cache, ruleSetId,
                           [data |-> StoredRuleSet(ruleSetId), timestamp |-> t]),
          requested |-> TRUE]
    ELSE [returned |-> Null, cache |-> cache, requested |-> TRUE]

\* RuleEngine.loadRuleSet: const storage = new RuleStorage(), then
\* storage.getRuleSet(ruleSetId)
loadRuleSetAt(ruleSetId, t, response) ==
    getRuleSetCached(NewCache, ruleSetId, t, response)

\* one entry of the log of loads
Load(ruleSetId, t, out) ==
    [ruleSetId |-> ruleSetId, at |-> t, returned |-> out.returned,
     requested |-> out.requested]

CacheInit == storageClock = 0 /\ loads = <<>>
CacheIdle == storageClock = 0 /\ loads = <<>>

\* a minute passes
Tick ==
    /\ storageClock < MaxMinutes * Minute
    /\ storageClock' = storageClock + Minute
    /\ UNCHANGED <<notCacheVars, loads>>

\* an execute call loads a ruleset and the config service answers with it
LoadAnswered ==
    /\ Len(loads) < MaxLoads
    /\ \E id \in StoredIds :
          loads' = Append(loads,
                          Load(id, storageClock,
                               loadRuleSetAt(id, storageClock, "data")))
    /\ UNCHANGED <<notCacheVars, storageClock>>

\* an execute call loads a ruleset and the config service has no data or
\* cannot be reached
LoadUnanswered ==
    /\ Len(loads) < MaxLoads
    /\ \E id \in StoredIds, response \in Responses \ {"data"} :
          loads' = Append(loads,
                          Load(id, storageClock,
                               loadRuleSetAt(id, storageClock, response)))
    /\ UNCHANGED <<notCacheVars, storageClock>>

-----------------------------------------------------------------------------
(* Two execute() calls on one engine. JavaScript runs a call from one await *)
(* to the next without interruption, so a step of this model takes one call *)
(* from a suspension point (the ruleset load, the actions of a matched      *)
(* rule) to its next one. A call's state is the local variables of execute. *)

Calls == {"A", "B"}

CalcNow == [type |-> "calculate", field |-> <<"t">>, expression |-> "now()"]

\* the rulesets of the config service
CallService ==
    [RS1 |-> [ruleSetId |-> "RS1", strategy |-> "all",
              rules |-> Numbered(<<Rule(TRUE, CondB1, <<CalcNow>>, 10, FALSE),
                                   Rule(TRUE, CondEq1, <<SetB>>, 20, FALSE)>>)],
     RS2 |-> [ruleSetId |-> "RS2", strategy |-> "priority-order",
              rules |-> Numbered(<<Rule(TRUE, CondLt1, <<SetB, CalcBad, SetA>>,
                                        20, FALSE),
                                   Rule(TRUE, CondUnknownOp, <<SetA>>, 20, FALSE),
                                   Rule(TRUE, CondB1, <<SetA>>, 10, FALSE)>>)],
     RS3 |-> [ruleSetId |-> "RS3", strategy |-> "first-match",
              rules |-> Numbered(<<Rule(TRUE, CondLt1, <<SetA>>, 20, FALSE),
                                   Rule(TRUE, CondEq1, <<SetB>>, 10, FALSE),
                                   Rule(TRUE, CondEq1, <<SetA>>, 10, FALSE)>>)]]

\* requests of the concurrent calls: each has its own context and data
CallRequests ==
    {[ruleSetId |-> id, context |-> ExecContext] :
        id \in {"RS1", "RS2", "RS3"}}
    \cup {[ruleSetId |-> id, context |-> ExecContext,
           data |-> Map([a |-> Num(1)])] : id \in {"RS1", "RS3", "RS9"}}
    \cup {[ruleSetId |-> "RS1"]}

\* the local variables of a call that has not run yet, and the request as
\* the caller passed it
NewCall(req) ==
    [argument |-> req, request |-> req, pc |-> "Start", startTime |-> 0, ruleSet |-> Null,
     data |-> EmptyObject, sortedRules |-> <<>>, idx |-> 0,
     pending |-> NoPending, executionTrace |-> <<>>, errors |-> <<>>,
     rulesMatched |-> 0, result |-> NoResult]

\* lines 36-50: from the call to the await of loadRuleSet
begin(s, t) ==
    IF ~HasContext(s.request)
    THEN [s EXCEPT !.startTime = t, !.pc = "Rejected",
                   !.result = [kind |-> "rejected", message |-> "TypeError"]]
    ELSE [s EXCEPT !.startTime = t, !.pc = "Loading",
                   !.data = Spread(ContextData(s.request.context),
                                   RequestData(s.request))]

\* lines 118-137: the result after the loop
finish(s) ==
    [s EXCEPT !.pc = "Done",
              !.result = PassResult(s.data, s.executionTrace, s.errors,
                                    Len(s.sortedRules), s.rulesMatched)]

RECURSIVE loop(_)
\* lines 67-84, 97-116: the loop from the rule at idx on, up to the await of
\* executeActions of the next rule that matches, or to the end
loop(s) ==
    IF s.idx > Len(s.sortedRules) THEN finish(s)
    ELSE LET rule == s.sortedRules[s.idx]
             c == evaluateCondition(rule.when, s.data, s.request.context)
         IN IF c.threw
            THEN loop([s EXCEPT
                         !.errors = Append(@, ErrorEntry(rule.ruleId, c.message)),
                         !.executionTrace = Append(@, ErrorTrace(rule, c.message)),
                         !.idx = @ + 1])
            ELSE IF ~c.value
            THEN loop([s EXCEPT
                         !.executionTrace = Append(@, ConditionTrace(rule, FALSE)),
                         !.idx = @ + 1])
            ELSE LET p == executeActions(rule.then, s.data, s.request.context)
                 IN [s EXCEPT !.pending = p, !.data = p.data,
                              !.request.context = p.context,
                              !.pc = "AwaitActions"]

\* lines 50-65: loadRuleSet has returned
loaded(s, rs) ==
    IF rs = Null
    THEN [s EXCEPT !.pc = "Aborted",
                   !.result = FatalResult(s.data, s.executionTrace,
                                          "RuleSet not found")]
    ELSE loop([s EXCEPT
                 !.ruleSet = rs,
                 !.sortedRules =
                     sortRulesByPriority(
                         filterRulesByScope(rs.rules, s.request.context)
                     ).returned,
                 !.idx = 1,
                 !.pc = "Evaluating"])

\* lines 84-97, 99-115: the await of executeActions returns or throws
resumed(s) ==
    LET rule == s.sortedRules[s.idx]
        p == s.pending
    IN IF p.threw
       THEN loop([s EXCEPT
                    !.pending = NoPending,
                    !.errors = Append(@, ErrorEntry(rule.ruleId, p.message)),
                    !.executionTrace = Append(@, ErrorTrace(rule, p.message)),
                    !.idx = @ + 1,
                    !.pc = "Evaluating"])
       ELSE LET m == [s EXCEPT
                        !.pending = NoPending,
                        !.executionTrace =
                            Append(@, MatchedTrace(rule, p.executed)),
                        !.rulesMatched = @ + 1]
            IN IF rule.stopOnMatch \/ s.ruleSet.strategy = "first-match"
               THEN finish(m)
               ELSE loop([m EXCEPT !.idx = @ + 1, !.pc = "Evaluating"])

\* what the config service answers
serviceAnswer(req) ==
    IF RequestedId(req) \in DOMAIN CallService
    THEN CallService[RequestedId(req)] ELSE Null
\* one working record kept on the engine and used by every call
RecordOfEngine(c) == "A"

\* whose working record a call reads and writes: data is a local constant of
\* execute, so each call has its own
RecordOf(c) == c

\* the local variables of call c as the call finds them
Local(c) == [calls[c] EXCEPT !.data = calls[RecordOf(c)].data]
\* the local variables of call c after a step of the call
Stored(c, s) == [calls EXCEPT ![c] = s, ![RecordOf(c)].data = s.data]

CallsInit ==
    /\ calls \in [Calls -> {NewCall(req) : req \in CallRequests}]
    /\ clock = 0
    /\ schedule = <<>>

CallsIdle ==
    /\ calls = <<>>
    /\ clock = 0
    /\ schedule = <<>>

\* execute is called
CallExecute ==
    \E c \in Calls :
        /\ calls[c].pc = "Start"
        /\ calls' = Stored(c, begin(Local(c), DateNow))
        /\ schedule' = Append(schedule, c)
        /\ UNCHANGED <<notCallsVars, clock>>

\* the await of loadRuleSet ends
LoadResolved ==
    \E c \in Calls :
        /\ calls[c].pc = "Loading"
        /\ calls' = Stored(c, loaded(Local(c), serviceAnswer(calls[c].request)))
        /\ schedule' = Append(schedule, c)
        /\ UNCHANGED <<notCallsVars, clock>>

\* the await of executeActions ends
ActionsResolved ==
    \E c \in Calls :
        /\ calls[c].pc = "AwaitActions"
        /\ calls' = Stored(c, resumed(Local(c)))
        /\ schedule' = Append(schedule, c)
        /\ UNCHANGED <<notCallsVars, clock>>

\* time passes
ClockTick ==
    /\ clock < MaxClock
    /\ clock' = clock + 1
    /\ UNCHANGED <<notCallsVars, calls, schedule>>

-----------------------------------------------------------------------------
(* The scope filter on its own *)

Dimensions == {"programId", "issuerId", "country", "role"}

IdA == Str(<<"A">>)
IdB == Str(<<"B">>)
IdC == Str(<<"C">>)

\* per dimension: no list, an empty list, or the list [A, B]
ScopeShapes == [Dimensions -> {"absent", "empty", "list"}]
ScopeOf(shape) ==
    [d \in {x \in Dimensions : shape[x] # "absent"} |->
        IF shape[d] = "empty" THEN <<>> ELSE <<IdA, IdB>>]

ScopeDomainRules ==
    {Rule(e, CondEq1, <<>>, 10, FALSE) : e \in BOOLEAN}
    \cup {ScopedRule(e, ScopeOf(shape), CondEq1, <<>>, 10, FALSE) :
             e \in BOOLEAN, shape \in ScopeShapes}

\* rules appended behind the first one
ScopeSampleRules ==
    {Rule(TRUE, CondEq1, <<>>, 10, FALSE), Rule(FALSE, CondEq1, <<>>, 10, FALSE)}

\* per context key: missing, the empty string, a listed id, an unlisted id
ContextValues == {Undef, Str(<<>>), IdA, IdC}
ContextShapes ==
    [{"programId", "issuerId", "country", "userRole"} -> ContextValues]
ContextOf(shape) ==
    Map([k \in {x \in DOMAIN shape : shape[x] # Undef} |-> shape[k]])

NotCalled == [called |-> FALSE, returned |-> <<>>, before |-> <<>>]

ScopeInit ==
    /\ \E r \in ScopeDomainRules : scopeRules = Numbered(<<r>>)
    /\ \E shape \in ContextShapes : scopeContext = ContextOf(shape)
    /\ scopeOut = NotCalled

ScopeIdle ==
    /\ scopeRules = <<>>
    /\ scopeContext = EmptyObject
    /\ scopeOut = NotCalled

AddScopeRule ==
    /\ ~scopeOut.called
    /\ Len(scopeRules) < MaxScopeRules
    /\ \E r \in ScopeSampleRules : scopeRules' = Numbered(Append(scopeRules, r))
    /\ UNCHANGED <<notScopeVars, scopeContext, scopeOut>>

FilterCall ==
    /\ ~scopeOut.called
    /\ scopeOut' = [called |-> TRUE,
                    returned |-> filterRulesByScope(scopeRules, scopeContext),
                    before |-> scopeRules]
    /\ UNCHANGED <<notScopeVars, scopeRules, scopeContext>>

-----------------------------------------------------------------------------
(* The priority sort on its own *)

SortPriorities == {5, 10, 20}

SortInputs ==
    {Numbered(q) :
        q \in SeqsUpTo({Rule(TRUE, CondEq1, <<>>, p, FALSE) : p \in SortPriorities},
                       MaxSortLen)}

SortInit == sortInput \in SortInputs /\ sortOut = NotCalled

SortIdle == sortInput = <<>> /\ sortOut = NotCalled

SortCall ==
    /\ ~sortOut.called
    /\ LET r == sortRulesByPriority(sortInput)
       IN /\ sortOut' = [called |-> TRUE, returned |-> r.returned,
                         before |-> sortInput]
          /\ sortInput' = r.argument
    /\ UNCHANGED notSortVars

-----------------------------------------------------------------------------
(* Objects held by reference.                                               *)
(* The execute() model above keeps records as values: its records and       *)
(* literals hold numbers only, so no object is reachable twice. Here arrays *)
(* and plain objects live in a heap and are reached through references, as  *)
(* in the program: the spread of line 40 copies the top-level keys only,    *)
(* and a set action stores the literal of the rule itself.                  *)

Ref(a) == [t |-> "ref", v |-> a]

\* current?.[part] with current a reference or a primitive
PropIn(h, current, part) ==
    IF current.t = "ref" THEN Prop(h[current.v], part) ELSE Prop(current, part)

RECURSIVE getNestedValueIn(_, _, _)
getNestedValueIn(h, obj, path) ==
    IF path = <<>> THEN obj
    ELSE getNestedValueIn(h, PropIn(h, obj, Head(path)), Tail(path))

getFieldValueIn(h, field, d, context) ==
    IF Len(field) > 1 /\ Head(field) = "context"
    THEN getNestedValueIn(h, context, Tail(field))
    ELSE getNestedValueIn(h, d, field)

\* what an action did: the heap after it, whether it was counted, whether it
\* threw
Outcome(h, n, threw, message) ==
    [heap |-> h, executed |-> n, threw |-> threw, message |-> message]

RECURSIVE setFieldValueIn(_, _, _, _)
\* setFieldValue on the object current refers to. A missing or falsy
\* intermediate segment gets a new {}; a truthy number or string on the way
\* makes the next property write throw a TypeError (module code is strict).
\* An array met on the way is left as it is: the model gives arrays no named
\* properties.
setFieldValueIn(h, parts, value, current) ==
    IF current.t # "ref"
    THEN Outcome(h, 0, TRUE, "TypeError: Cannot create property")
    ELSE IF h[current.v].t = "arr" THEN Outcome(h, 1, FALSE, "")
    ELSE IF Len(parts) = 1
    THEN Outcome([h EXCEPT ![current.v].v = Assign(@, parts[1], value)],
                 1, FALSE, "")
    ELSE LET child == PropIn(h, current, parts[1])
             fresh == Ref(Len(h) + 1)
             created == [Append(h, EmptyObject) EXCEPT
                            ![current.v].v = Assign(@, parts[1], fresh)]
         IN IF Falsy(child)
            THEN setFieldValueIn(created, Tail(parts), value, fresh)
            ELSE setFieldValueIn(h, Tail(parts), value, child)

\* set / calculate with an expression: the expression sees
\* { ...data, ...context }
expressionAction(h, action, d, context) ==
    LET e == evaluate(action.expression, Spread(h[d.v], h[context.v]))
    IN IF e.threw THEN Outcome(h, 0, TRUE, e.message)
       ELSE setFieldValueIn(h, action.field, e.value, d)

\* case 'set'
setAction(h, action, d, context) ==
    IF HasField(action) /\ HasValue(action)
    THEN setFieldValueIn(h, action.field, action.value, d)
    ELSE IF HasField(action) /\ HasExpression(action)
    THEN expressionAction(h, action, d, context)
    ELSE Outcome(h, 0, FALSE, "")
\* an append that makes the array when the field holds none
appendActionCreating(h, action, d, context) ==
    LET current == getFieldValueIn(h, action.field, d, context)
    IN IF current.t = "ref" /\ h[current.v].t = "arr"
       THEN Outcome([h EXCEPT ![current.v].v = Append(@, action.value)],
                    1, FALSE, "")
       ELSE setFieldValueIn(Append(h, Arr(<<action.value>>)), action.field,
                            Ref(Len(h) + 1), d)

\* case 'append': current.push(action.value) on the array the field resolves to
appendAction(h, action, d, context) ==
    IF HasField(action) /\ HasValue(action)
    THEN LET current == getFieldValueIn(h, action.field, d, context)
         IN IF current.t = "ref" /\ h[current.v].t = "arr"
            THEN Outcome([h EXCEPT ![current.v].v = Append(@, action.value)],
                         1, FALSE, "")
            ELSE Outcome(h, 0, FALSE, "")
    ELSE Outcome(h, 0, FALSE, "")

\* case 'remove': delete data[action.field]. The key is the whole field
\* string, so a dotted path names a key with dots in it, which no record of
\* the model has.
removeAction(h, action, d, context) ==
    IF HasField(action)
    THEN Outcome(IF Len(action.field) = 1
                 THEN [h EXCEPT ![d.v].v = Delete(@, action.field[1])]
                 ELSE h,
                 1, FALSE, "")
    ELSE Outcome(h, 0, FALSE, "")

\* case 'calculate'
calculateAction(h, action, d, context) ==
    IF HasField(action) /\ HasExpression(action)
    THEN expressionAction(h, action, d, context)
    ELSE Outcome(h, 0, FALSE, "")

-----------------------------------------------------------------------------
(* The actions of a pass on the caller's objects *)

\* where the caller's objects are when execute is called
ContextAt == 1
PermissionsAt == 2
ContextDataAt == 3
FlagsAt == 4
NestedAt == 5
RequestDataAt == 6
\* where the literals of the rules' set actions are
ArrayLiteralAt == 7
MapLiteralAt == 8

\* the caller's context and request data and the literals of the ruleset
CallerHeap(contextData, requestData) ==
    <<Map([country |-> Str(<<"D", "E">>), permissions |-> Ref(PermissionsAt),
           data |-> Ref(ContextDataAt)]),
      Arr(<<Str(<<"A">>)>>),
      contextData,
      Arr(<<Str(<<"B">>)>>),
      Map([b |-> Num(5)]),
      requestData,
      Arr(<<>>),
      EmptyObject>>

\* the records a call starts from: context.data, request.data and whether
\* the request has a data object at all
CallerRecords ==
    {[contextData |-> EmptyObject, requestData |-> EmptyObject,
      hasData |-> FALSE],
     [contextData |-> Map([a |-> Num(0), flags |-> Ref(FlagsAt),
                           m |-> Ref(NestedAt), country |-> Num(7)]),
      requestData |-> EmptyObject, hasData |-> FALSE],
     [contextData |-> Map([a |-> Num(0), flags |-> Ref(FlagsAt)]),
      requestData |-> Map([a |-> Num(2), m |-> Ref(NestedAt)]),
      hasData |-> TRUE]}

SetLiteral(field, value) == [type |-> "set", field |-> field, value |-> value]
AppendLiteral(field, value) ==
    [type |-> "append", field |-> field, value |-> value]
Remove(field) == [type |-> "remove", field |-> field]
Calculate(field, expression) ==
    [type |-> "calculate", field |-> field, expression |-> expression]

SetActions ==
    {SetLiteral(<<"a">>, Num(1)),
     SetLiteral(<<"m", "b">>, Num(1)),
     SetLiteral(<<"m", "b", "c">>, Num(1)),
     SetLiteral(<<"z", "y">>, Num(1)),
     SetLiteral(<<"tags">>, Ref(ArrayLiteralAt)),
     SetLiteral(<<"lit">>, Ref(MapLiteralAt)),
     SetLiteral(<<"lit", "x">>, Num(1)),
     SetLiteral(<<"context", "permissions">>, Num(1)),
     [type |-> "set", field |-> <<"y">>, expression |-> "country"]}

AppendActions ==
    {AppendLiteral(<<"flags">>, Str(<<"C">>)),
     AppendLiteral(<<"tags">>, Num(1)),
     AppendLiteral(<<"context", "permissions">>, Str(<<"C">>)),
     AppendLiteral(<<"a">>, Num(1)),
     AppendLiteral(<<"q">>, Num(1))}

RemoveActions ==
    {Remove(<<"a">>), Remove(<<"m", "b">>), Remove(<<"flags">>),
     Remove(<<"lit">>), Remove(<<"q">>)}

CalculateActions ==
    {Calculate(<<"x">>, "country"), Calculate(<<"b">>, "1 +"),
     Calculate(<<"s">>, "1 + 1")}

NoAction ==
    [action |-> [type |-> "none"], before |-> <<>>, executed |-> 0,
     threw |-> FALSE]

ActInit ==
    /\ \E r \in CallerRecords :
          /\ heap = CallerHeap(r.contextData, r.requestData)
          /\ requestHasData = r.hasData
    /\ heapAtCall = heap
    /\ dataRef = Undef
    /\ applied = 0
    /\ last = NoAction

ActIdle ==
    /\ heap = <<>>
    /\ heapAtCall = <<>>
    /\ requestHasData = FALSE
    /\ dataRef = Undef
    /\ applied = 0
    /\ last = NoAction

\* line 40: const data = { ...context.data, ...requestData }, a new object
\* with the top-level keys of the two
CopyRecord ==
    /\ heap # <<>>
    /\ dataRef.t # "ref"
    /\ heap' = Append(heap,
                      Spread(heap[PropIn(heap, Ref(ContextAt), "data").v],
                             IF requestHasData THEN heap[RequestDataAt]
                             ELSE EmptyObject))
    /\ dataRef' = Ref(Len(heap) + 1)
    /\ UNCHANGED <<notActVars, heapAtCall, requestHasData, applied, last>>

\* the working record is there and the pass has actions left
CanRun == dataRef.t = "ref" /\ applied < MaxActions

\* what is kept of an action that ran
Ran(action, outcome) ==
    [action |-> action, before |-> heap, executed |-> outcome.executed,
     threw |-> outcome.threw]

\* One iteration of the loop of executeActions, lines 251-305, in some rule of
\* the pass. An action that throws ends the list of its rule, and the pass
\* goes on with the actions of a later rule.
SetStep ==
    \E action \in SetActions :
        LET outcome == setAction(heap, action, dataRef, Ref(ContextAt))
        IN /\ CanRun
           /\ heap' = outcome.heap
           /\ last' = Ran(action, outcome)
           /\ applied' = applied + 1
           /\ UNCHANGED <<notActVars, heapAtCall, requestHasData, dataRef>>

AppendStep ==
    \E action \in AppendActions :
        LET outcome == appendAction(heap, action, dataRef, Ref(ContextAt))
        IN /\ CanRun
           /\ heap' = outcome.heap
           /\ last' = Ran(action, outcome)
           /\ applied' = applied + 1
           /\ UNCHANGED <<notActVars, heapAtCall, requestHasData, dataRef>>

RemoveStep ==
    \E action \in RemoveActions :
        LET outcome == removeAction(heap, action, dataRef, Ref(ContextAt))
        IN /\ CanRun
           /\ heap' = outcome.heap
           /\ last' = Ran(action, outcome)
           /\ applied' = applied + 1
           /\ UNCHANGED <<notActVars, heapAtCall, requestHasData, dataRef>>

CalculateStep ==
    \E action \in CalculateActions :
        LET outcome == calculateAction(heap, action, dataRef, Ref(ContextAt))
        IN /\ CanRun
           /\ heap' = outcome.heap
           /\ last' = Ran(action, outcome)
           /\ applied' = applied + 1
           /\ UNCHANGED <<notActVars, heapAtCall, requestHasData, dataRef>>

-----------------------------------------------------------------------------
(* Specifications *)


\* one execute() call
Init == ExecInit /\ CondIdle /\ ScopeIdle /\ SortIdle /\ ActIdle /\ DepthIdle /\ LookupIdle /\ CacheIdle /\ CallsIdle /\ ExprIdle
Next == ExecNext
Spec == Init /\ [][Next]_vars

\* condition evaluation
SpecCondInit == CondInit /\ ExecIdle /\ ScopeIdle /\ SortIdle /\ ActIdle /\ DepthIdle /\ LookupIdle /\ CacheIdle /\ CallsIdle /\ ExprIdle
SpecCondNext == WrapNot \/ WrapAll \/ WrapAny \/ Evaluate
SpecCond == SpecCondInit /\ [][SpecCondNext]_vars


\* the scope filter
SpecScopeInit == ScopeInit /\ ExecIdle /\ CondIdle /\ SortIdle /\ ActIdle /\ DepthIdle /\ LookupIdle /\ CacheIdle /\ CallsIdle /\ ExprIdle
SpecScopeNext == AddScopeRule \/ FilterCall
SpecScope == SpecScopeInit /\ [][SpecScopeNext]_vars

\* the priority sort
SpecSortInit == SortInit /\ ExecIdle /\ CondIdle /\ ScopeIdle /\ ActIdle /\ DepthIdle /\ LookupIdle /\ CacheIdle /\ CallsIdle /\ ExprIdle
SpecSortNext == SortCall
SpecSort == SpecSortInit /\ [][SpecSortNext]_vars

\* field resolution and the ordering operators
SpecLookupInit == LookupInit /\ ExecIdle /\ CondIdle /\ ScopeIdle /\ SortIdle /\ ActIdle /\ DepthIdle /\ CacheIdle /\ CallsIdle /\ ExprIdle
SpecLookupNext == EvaluateSimple
SpecLookup == SpecLookupInit /\ [][SpecLookupNext]_vars

\* ruleset loads of one engine
SpecCacheInit == CacheInit /\ ExecIdle /\ CondIdle /\ ScopeIdle /\ SortIdle /\ ActIdle /\ DepthIdle /\ LookupIdle /\ CallsIdle /\ ExprIdle
SpecCacheNext == Tick \/ LoadAnswered \/ LoadUnanswered
SpecCache == SpecCacheInit /\ [][SpecCacheNext]_vars

\* two execute() calls on one engine
SpecCallsInit == CallsInit /\ ExecIdle /\ CondIdle /\ ScopeIdle /\ SortIdle /\ ActIdle /\ DepthIdle /\ LookupIdle /\ CacheIdle /\ ExprIdle
SpecCallsNext == CallExecute \/ LoadResolved \/ ActionsResolved \/ ClockTick
SpecCalls == SpecCallsInit /\ [][SpecCallsNext]_vars

\* one evaluation of an arithmetic expression
SpecExprInit == ExprInit /\ ExecIdle /\ CondIdle /\ ScopeIdle /\ SortIdle /\ ActIdle /\ DepthIdle /\ LookupIdle /\ CacheIdle /\ CallsIdle
SpecExprNext == AddTerm \/ CallParser \/ EvaluateTerm \/ ReturnValue
SpecExpr == SpecExprInit /\ [][SpecExprNext]_vars

\* the recursion of condition evaluation
SpecDepthInit == DepthInit /\ ExecIdle /\ CondIdle /\ ScopeIdle /\ SortIdle /\ ActIdle /\ LookupIdle /\ CacheIdle /\ CallsIdle /\ ExprIdle
SpecDepthNext ==
    NestNot \/ CallEvaluate \/ ReturnLeaf \/ Recurse \/ NextChild \/ ReturnUp
SpecDepth == SpecDepthInit /\ [][SpecDepthNext]_vars

\* the actions of a pass on objects held by reference
SpecActionsInit == ActInit /\ ExecIdle /\ CondIdle /\ ScopeIdle /\ SortIdle /\ DepthIdle /\ LookupIdle /\ CacheIdle /\ CallsIdle /\ ExprIdle
SpecActionsNext ==
    CopyRecord \/ SetStep \/ AppendStep \/ RemoveStep \/ CalculateStep
SpecActions == SpecActionsInit /\ [][SpecActionsNext]_vars

-----------------------------------------------------------------------------
(* What the claims say, stated apart from the code's own definitions *)

\* the call is over
Finished == pc \in {"Done", "Aborted", "Rejected"}

TraceHasError(entry) == "error" \in DOMAIN entry

\* the context has a value under the key of the dimension, and the value is
\* one of the list
ListedIn(context, key, list) ==
    /\ key \in DOMAIN context.v
    /\ context.v[key] \in {list[i] : i \in 1..Len(list)}

ContextKey(dim) == IF dim = "role" THEN "userRole" ELSE dim

\* the scope filter as the specification words it
ClaimedInScope(rule, context) ==
    /\ rule.enabled
    /\ "scope" \in DOMAIN rule =>
          \A dim \in Dimensions :
              (dim \in DOMAIN rule.scope /\ rule.scope[dim] # <<>>) =>
                  ListedIn(context, ContextKey(dim), rule.scope[dim])

\* the applicable rules of the loaded ruleset, in ruleset order
ApplicableOfRuleSet ==
    SelectSeq(ruleSet.rules, LAMBDA r : ClaimedInScope(r, request.context))

\* the entries of the trace that carry an error, in trace order
ErrorEntriesOfTrace == SelectSeq(executionTrace, TraceHasError)

-----------------------------------------------------------------------------
(* C1: every execute call, also one whose request has no context or no       *)
(* ruleSetId, ends by returning a result, never by rejecting; a failure is   *)
(* success = false with a non-empty errors list.                             *)
C1_ExecuteAlwaysReturns ==
    Finished =>
        /\ result.kind = "returned"
        /\ ~result.success =>
              ("errors" \in DOMAIN result /\ result.errors # <<>>)

(* C2: when the provider gives no ruleset for the id, the result has         *)
(* success = false, exactly one error entry (the fatal one), rulesEvaluated  *)
(* = 0, rulesMatched = 0, an empty trace, and the merged input record.        *)
C2_RuleSetNotFoundResult ==
    (Finished /\ HasContext(request) /\ ruleSet = Null) =>
        /\ result.kind = "returned"
        /\ result.success = FALSE
        /\ "errors" \in DOMAIN result
        /\ Len(result.errors) = 1
        /\ result.errors[1].ruleId = "SYSTEM"
        /\ result.metadata.rulesEvaluated = 0
        /\ result.metadata.rulesMatched = 0
        /\ result.executionTrace = <<>>
        /\ LET given == RequestData(request).v
               inContext == ContextData(request.context).v
           IN /\ DOMAIN result.data.v = (DOMAIN given) \cup (DOMAIN inContext)
              /\ \A k \in DOMAIN result.data.v :
                    result.data.v[k] = IF k \in DOMAIN given THEN given[k]
                                       ELSE inContext[k]

C2_Witness ==
    /\ pc = "Aborted"
    /\ RequestedId(request) = "RS2"
    /\ result.data = Map([a |-> Num(1)])

(* C3: under first-match, or for a rule with stopOnMatch, once the rule's    *)
(* condition has evaluated true no later rule is evaluated, whatever its     *)
(* actions do: the step after the rule's actions never goes on in the loop.  *)
C3_StopAfterMatch ==
    [][(pc = "AwaitActions" /\ StopsHere)
          => ~(pc' = "Evaluating" /\ idx' <= Len(sortedRules))]_vars

(* C4: under all or priority-order, with no applicable rule that has         *)
(* stopOnMatch, the trace of the finished pass has exactly one entry per     *)
(* applicable rule.                                                          *)
C4_EveryApplicableRuleTraced ==
    (pc = "Done"
     /\ ruleSet.strategy \in {"all", "priority-order"}
     /\ \A i \in 1..Len(ApplicableOfRuleSet) :
           ~ApplicableOfRuleSet[i].stopOnMatch) =>
        /\ Len(executionTrace) = Len(ApplicableOfRuleSet)
        /\ \A i \in 1..Len(ApplicableOfRuleSet) :
              Cardinality({j \in 1..Len(executionTrace) :
                  executionTrace[j].ruleId = ApplicableOfRuleSet[i].ruleId}) = 1

C4_Witness ==
    /\ pc = "Done"
    /\ ruleSet.strategy = "priority-order"
    /\ Len(ruleSet.rules) = 2
    /\ \A i \in 1..2 : ruleSet.rules[i].enabled /\ ~ruleSet.rules[i].stopOnMatch
    /\ Len(executionTrace) = 2
    /\ TraceHasError(executionTrace[1])
    /\ executionTrace[2].matched

(* C5: sortRulesByPriority returns a permutation of its input in             *)
(* non-increasing priority, rules of equal priority in their input order,    *)
(* and leaves the input list as it was.                                      *)
C5_StableDescendingSort ==
    sortOut.called =>
        LET input == sortOut.before
            out == sortOut.returned
            PlaceIn(r) == CHOOSE i \in 1..Len(input) : input[i] = r
        IN /\ sortInput = input
           /\ Len(out) = Len(input)
           /\ \A i \in 1..Len(input) : \E j \in 1..Len(out) : out[j] = input[i]
           /\ \A i, j \in 1..Len(out) :
                 i < j =>
                    /\ out[i].priority >= out[j].priority
                    /\ out[i].priority = out[j].priority
                          => PlaceIn(out[i]) < PlaceIn(out[j])

C5_Witness ==
    /\ sortOut.called
    /\ Len(sortOut.before) = 3
    /\ sortOut.before[1].priority = 10
    /\ sortOut.before[2].priority = 20
    /\ sortOut.before[3].priority = 10
    /\ sortOut.returned[1].ruleId = "R2"
    /\ sortOut.returned[2].ruleId = "R1"
    /\ sortOut.returned[3].ruleId = "R3"

(* C6: the scope filter keeps exactly the rules that are enabled and whose   *)
(* every populated dimension list holds the context's value for it (a rule   *)
(* without scope only has to be enabled), in their input order.              *)
C6_ScopeFilter ==
    scopeOut.called =>
        scopeOut.returned =
            SelectSeq(scopeOut.before, LAMBDA r : ClaimedInScope(r, scopeContext))

C6_Witness ==
    /\ scopeOut.called
    /\ Len(scopeOut.before) = 2
    /\ "scope" \in DOMAIN scopeOut.before[1]
    /\ DOMAIN scopeOut.before[1].scope = Dimensions
    /\ \A d \in Dimensions : scopeOut.before[1].scope[d] # <<>>
    /\ Len(scopeOut.returned) = 1
    /\ scopeOut.returned[1].ruleId = "R1"

(* C7: a complex condition with one of all / any / not, whose children       *)
(* evaluate without error, gives: all - true iff every child is true (true   *)
(* for no child); any - true iff some child is true (false for no child);    *)
(* not - the negation of its child. Children may be complex themselves.      *)
C7_ComplexCondition ==
    LET ChildOut(c) == evaluateCondition(c, condData, TestContext)
        ChildTrue(c) == ~ChildOut(c).threw /\ ChildOut(c).value
        populated == (DOMAIN cond) \cap {"all", "any", "not"}
        children == IF "all" \in populated THEN cond.all
                    ELSE IF "any" \in populated THEN cond.any
                    ELSE <<cond.not>>
    IN (/\ condOut # NotEvaluated
        /\ ~isSimpleCondition(cond)
        /\ Cardinality(populated) = 1
        /\ \A i \in 1..Len(children) : ~ChildOut(children[i]).threw) =>
           /\ ~condOut.threw
           /\ "all" \in populated =>
                 (condOut.value <=> \A i \in 1..Len(cond.all) : ChildTrue(cond.all[i]))
           /\ "any" \in populated =>
                 (condOut.value <=> \E i \in 1..Len(cond.any) : ChildTrue(cond.any[i]))
           /\ "not" \in populated => (condOut.value <=> ~ChildTrue(cond.not))

C7_Witness ==
    /\ condOut # NotEvaluated
    /\ DOMAIN cond = {"all"}
    /\ Len(cond.all) = 2
    /\ \E i \in 1..2 : DOMAIN cond.all[i] = {"any"}
    /\ ~condOut.threw
    /\ condOut.value

(* C8: for every condition c - simple, complex, or complex with none or      *)
(* several of all / any / not - {not: {not: c}} evaluates to what c          *)
(* evaluates to: the same boolean, or the same error.                        *)
C8_DoubleNegation ==
    condOut # NotEvaluated => condOutNotNot = condOut

C8_Witness ==
    /\ condOut # NotEvaluated
    /\ ~isSimpleCondition(cond)
    /\ Cardinality((DOMAIN cond) \cap {"all", "any", "not"}) = 2
    /\ condOut.value
    /\ condOutNotNot.value

(* C9: in the result of a pass whose ruleset was loaded, success is true iff *)
(* the errors list is absent iff no trace entry carries an error, and the    *)
(* error entries are, one for one and in order, the rule ids and messages of *)
(* the trace entries that carry an error.                                    *)
C9_SuccessIffNoRuleError ==
    pc = "Done" =>
        LET errs == IF "errors" \in DOMAIN result THEN result.errors ELSE <<>>
            failed == SelectSeq(result.executionTrace, TraceHasError)
        IN /\ result.success <=> "errors" \notin DOMAIN result
           /\ result.success <=> failed = <<>>
           /\ "errors" \in DOMAIN result => result.errors # <<>>
           /\ Len(errs) = Len(failed)
           /\ \A k \in 1..Len(errs) :
                 /\ errs[k].ruleId = failed[k].ruleId
                 /\ errs[k].error = failed[k].error

C9_Witness ==
    /\ pc = "Done"
    /\ ~result.success
    /\ Len(result.errors) = 1
    /\ Len(result.executionTrace) = 2
    /\ TraceHasError(result.executionTrace[1])
    /\ result.executionTrace[2].matched

(* C10: an error in the condition or the actions of rule i does not end the  *)
(* pass: rule i gets an error trace entry and rule i+1 is evaluated next;    *)
(* the fatal result comes only from a failed ruleset load.                   *)
C10_RuleErrorDoesNotAbort ==
    /\ \A i \in 1..Len(executionTrace) :
          /\ executionTrace[i].ruleId = sortedRules[i].ruleId
          /\ (TraceHasError(executionTrace[i]) /\ i < Len(sortedRules)) =>
                \/ Len(executionTrace) > i
                \/ pc \in {"Evaluating", "AwaitActions"} /\ idx = i + 1
    /\ Len(errors) = Len(ErrorEntriesOfTrace)
    /\ (Finished /\ result.kind = "returned" /\ ruleSet # Null) =>
          /\ pc = "Done"
          /\ \A k \in 1..Len(errors) : errors[k].ruleId # "SYSTEM"

C10_Witness ==
    /\ pc = "Done"
    /\ Len(executionTrace) = 2
    /\ TraceHasError(executionTrace[1])
    /\ executionTrace[1].error = "Expression evaluation failed"
    /\ ~TraceHasError(executionTrace[2])
    /\ executionTrace[2].matched

\* the messages of the errors an action can throw
ActionErrorMessages ==
    {"Expression evaluation failed", "TypeError: Cannot create property"}

\* an action of an earlier rule of the pass has thrown
ActionThrewEarlier ==
    \E i \in 1..Len(errors) : errors[i].error \in ActionErrorMessages

(* C11: once an action of a rule has thrown in the middle of the rule's      *)
(* action list, no action of a later rule of the pass is applied: the record *)
(* does not change any more.                                                 *)
C11_NoActionsAfterActionError ==
    [][ActionThrewEarlier => data' = data]_vars

RECURSIVE EffectOf(_, _)
\* the actions applied one after the other, each to the state the one before
\* it left
EffectOf(actions, st) ==
    IF actions = <<>> THEN st
    ELSE EffectOf(Tail(actions), applyAction(Head(actions), st))

(* C12: when the k-th action of a matched rule throws, the record holds the  *)
(* effects of the actions 1..k-1 and nothing of the actions k.., the count   *)
(* of the call is k-1 at most, the catch block leaves the record as it is    *)
(* and the trace entry it writes for the rule carries the error.             *)
C12_PartialActionsRemain ==
    [][ /\ (pc = "Evaluating" /\ pc' = "AwaitActions" /\ pending'.threw) =>
              \E k \in 1..Len(CurrentRule.then) :
                  LET start == ActionState(data, request.context, 0, FALSE, "")
                      before == EffectOf(SubSeq(CurrentRule.then, 1, k - 1),
                                         start)
                  IN /\ ~before.threw
                     /\ applyAction(CurrentRule.then[k], before).threw
                     /\ data' = before.data
                     /\ pending'.executed = before.executed
        /\ (pc = "AwaitActions" /\ pending.threw) =>
              /\ data' = data
              /\ Len(executionTrace') = Len(executionTrace) + 1
              /\ LET entry == executionTrace'[Len(executionTrace')]
                 IN /\ entry.ruleId = CurrentRule.ruleId
                    /\ TraceHasError(entry)
                    /\ entry.error = pending.message
                    /\ ~entry.matched
      ]_vars

\* the second of three actions has thrown: the first one's field is written,
\* the third one's is not
C12_Witness ==
    /\ pc = "Done"
    /\ Len(executionTrace) = 1
    /\ TraceHasError(executionTrace[1])
    /\ executionTrace[1].error = "Expression evaluation failed"
    /\ Len(sortedRules[1].then) = 3
    /\ Prop(result.data, "b") = Num(1)
    /\ Prop(result.data, "a") = Num(0)

\* the number of trace entries with matched = true
MatchedEntries(trace) ==
    Cardinality({i \in 1..Len(trace) : trace[i].matched})

(* C20: in every result, rulesEvaluated is the number of trace entries and   *)
(* rulesMatched the number of trace entries with matched = true.             *)
C20_CountsAgreeWithTrace ==
    (Finished /\ result.kind = "returned") =>
        /\ result.metadata.rulesEvaluated = Len(result.executionTrace)
        /\ result.metadata.rulesMatched = MatchedEntries(result.executionTrace)

RECURSIVE Materialize(_, _)
\* the value a reference stands for, with everything reachable from it
Materialize(h, x) ==
    IF x.t # "ref" THEN x
    ELSE IF h[x.v].t = "map"
    THEN Map([k \in DOMAIN h[x.v].v |-> Materialize(h, h[x.v].v[k])])
    ELSE Arr([i \in 1..Len(h[x.v].v) |-> Materialize(h, h[x.v].v[i])])

\* line 40 has run: the call has its working record
Called == dataRef.t = "ref"

\* the field path of the action that ran last
LastField == last.action.field

\* what the path resolves to in the working record, all of it
RecordAt(h, path) == Materialize(h, getNestedValueIn(h, dataRef, path))

\* the top-level fields of the working record that are not on the path keep
\* their values over the last action
OtherFieldsKept(path) ==
    LET before == Materialize(last.before, dataRef).v
        after == Materialize(heap, dataRef).v
    IN /\ DOMAIN before \ {Head(path)} = DOMAIN after \ {Head(path)}
       /\ \A k \in DOMAIN before \ {Head(path)} : after[k] = before[k]

(* C13: after any sequence of set, append, remove and calculate actions on   *)
(* top-level, dotted or context.-prefixed paths, the caller's context, with  *)
(* context.data and everything nested in it, and the caller's request data   *)
(* are what they were when execute was called.                               *)
C13_CallerObjectsUnchanged ==
    Called =>
        /\ Materialize(heap, Ref(ContextAt))
              = Materialize(heapAtCall, Ref(ContextAt))
        /\ requestHasData =>
              Materialize(heap, Ref(RequestDataAt))
                 = Materialize(heapAtCall, Ref(RequestDataAt))

(* C14: after any sequence of actions, the literals of the ruleset's actions *)
(* (an array or a map written by a set action and later the target of an     *)
(* append or of a nested set) are what they were when execute was called.    *)
C14_RuleSetUnchanged ==
    Called =>
        /\ Materialize(heap, Ref(ArrayLiteralAt))
              = Materialize(heapAtCall, Ref(ArrayLiteralAt))
        /\ Materialize(heap, Ref(MapLiteralAt))
              = Materialize(heapAtCall, Ref(MapLiteralAt))

(* C15: a calculate action, or a set action with an expression, whose        *)
(* expression names a key that the record and the context both have is       *)
(* evaluated with the record's value of the key.                             *)
C15_RecordWinsInExpressions ==
    (/\ last.action.type \in {"set", "calculate"}
     /\ "expression" \in DOMAIN last.action
     /\ last.action.expression \in DOMAIN last.before[dataRef.v].v
     /\ last.action.expression \in DOMAIN last.before[ContextAt].v) =>
        getNestedValueIn(heap, dataRef, LastField)
           = last.before[dataRef.v].v[last.action.expression]

(* C16: a set with a literal on a path, top-level or dotted, followed by a   *)
(* remove on the same path leaves the path of the record as it was before    *)
(* the set.                                                                  *)
C16_SetThenRemoveRoundTrip ==
    [][(/\ last.action.type = "set"
        /\ "value" \in DOMAIN last.action
        /\ ~last.threw
        /\ applied' = applied + 1
        /\ last'.action.type = "remove"
        /\ last'.action.field = LastField) =>
            RecordAt(heap', LastField) = RecordAt(last.before, LastField)
      ]_vars

(* C17: after a set with literal v on path p, whatever the record was, also  *)
(* with a segment of p holding a non-map value, the engine's field           *)
(* resolution of p gives v and the fields off the path are as before.        *)
C17_SetWritesValue ==
    (last.action.type = "set" /\ "value" \in DOMAIN last.action) =>
        /\ ~last.threw
        /\ getFieldValueIn(heap, LastField, dataRef, Ref(ContextAt))
              = last.action.value
        /\ OtherFieldsKept(LastField)

(* C18: after a remove on path p, top-level or dotted, p resolves to absent  *)
(* in the record and the other fields are as before.                         *)
C18_RemoveDeletesPath ==
    last.action.type = "remove" =>
        /\ getNestedValueIn(heap, dataRef, LastField) = Undef
        /\ OtherFieldsKept(LastField)

(* C19: an append pushes its literal as the last element of the array the    *)
(* field holds, the earlier elements staying, and is counted; when the field *)
(* is absent or holds no array it changes nothing, creates no array, throws  *)
(* nothing and is not counted.                                               *)
C19_AppendPushesOrDoesNothing ==
    last.action.type = "append" =>
        LET held == getFieldValueIn(last.before, LastField, dataRef,
                                    Ref(ContextAt))
            now == getFieldValueIn(heap, LastField, dataRef, Ref(ContextAt))
        IN /\ ~last.threw
           /\ IF held.t = "ref" /\ last.before[held.v].t = "arr"
              THEN /\ now = held
                   /\ Materialize(heap, now).v
                         = Append(Materialize(last.before, held).v,
                                  last.action.value)
                   /\ last.executed = 1
              ELSE /\ heap = last.before
                   /\ last.executed = 0

\* an append on a field that is absent has done nothing, after an append on
\* the flags array of the record has pushed its literal
C19_Witness ==
    /\ last.action = AppendLiteral(<<"q">>, Num(1))
    /\ last.executed = 0
    /\ getNestedValueIn(heap, dataRef, <<"q">>) = Undef
    /\ Materialize(heap, getNestedValueIn(heap, dataRef, <<"flags">>))
          = Arr(<<Str(<<"B">>), Str(<<"C">>)>>)

\* the same boolean, or an error in both cases
SameOutcome(r1, r2) ==
    /\ r1.threw = r2.threw
    /\ ~r1.threw => r1.value = r2.value

\* the orders the n children of a list can be put in
Orders(n) ==
    {p \in [1..n -> 1..n] : \A i, j \in 1..n : p[i] = p[j] => i = j}

\* the list with its children in the order p
Reordered(cs, p) == [i \in 1..Len(cs) |-> cs[p[i]]]

(* C21: an all or any condition gives the same outcome, the same boolean or  *)
(* an error in both cases, for every order of its children, also when a      *)
(* child has an unknown operator or a regular expression that does not       *)
(* compile.                                                                  *)
C21_ChildOrderIndependent ==
    condOut # NotEvaluated =>
        \A key \in {"all", "any"} \cap DOMAIN cond :
            \A p \in Orders(Len(cond[key])) :
                SameOutcome(
                    evaluateCondition([cond EXCEPT ![key] = Reordered(@, p)],
                                      condData, TestContext),
                    condOut)

(* C24: a condition nested deeper than the maximum depth (32 levels) is      *)
(* rejected with an error instead of being recursed into: no evaluation has  *)
(* more calls of evaluateCondition active than a tree of 32 levels needs,    *)
(* and the evaluation of a deeper tree ends with an error.                   *)
C24_DeepConditionRejected ==
    /\ Len(callStack) <= DepthLimit + 1
    /\ (callStack = <<>> /\ returned # NotEvaluated /\ levels > DepthLimit) =>
           returned.threw

\* the loop is at a rule whose condition, on the record as it is now, is false
\* or raises an error
AtUnmatchedRule ==
    /\ pc = "Evaluating"
    /\ idx <= Len(sortedRules)
    /\ LET c == evaluateCondition(sortedRules[idx].when, data, request.context)
       IN c.threw \/ ~c.value

(* C26: a rule whose condition evaluates false or raises an error (unknown   *)
(* operator, regular expression that does not compile) changes nothing in    *)
(* the record, gets one trace entry with matched = false, and is not counted *)
(* in rulesMatched.                                                          *)
C26_UnmatchedRuleChangesNothing ==
    [][AtUnmatchedRule =>
          /\ data' = data
          /\ rulesMatched' = rulesMatched
          /\ Len(executionTrace') = Len(executionTrace) + 1
          /\ SubSeq(executionTrace', 1, Len(executionTrace)) = executionTrace
          /\ executionTrace'[Len(executionTrace')].ruleId = sortedRules[idx].ruleId
          /\ ~executionTrace'[Len(executionTrace')].matched]_vars

\* a pass that recorded a rule whose regular expression does not compile and
\* a rule whose condition is false
C26_Witness ==
    /\ pc = "Done"
    /\ \E i, j \in 1..Len(executionTrace) :
          /\ TraceHasError(executionTrace[i])
          /\ executionTrace[i].error = "Invalid regular expression"
          /\ "conditionResult" \in DOMAIN executionTrace[j]
          /\ ~executionTrace[j].conditionResult

\* the ruleset is loaded and the loop has been entered
InPass == pc \in {"Evaluating", "AwaitActions", "Stopped", "Done"}

\* positions of the loaded ruleset whose rule is enabled and in scope
ApplicableAt ==
    {i \in 1..Len(ruleSet.rules) :
        ClaimedInScope(ruleSet.rules[i], request.context)}

\* the scheduler takes the rule at position i before the one at position j:
\* higher priority first, ruleset order among equal priorities
TakenBefore(i, j) ==
    \/ ruleSet.rules[i].priority > ruleSet.rules[j].priority
    \/ ruleSet.rules[i].priority = ruleSet.rules[j].priority /\ i < j

\* the positions in the ruleset of the rule of a trace entry
PositionsOf(entry) ==
    {i \in 1..Len(ruleSet.rules) : ruleSet.rules[i].ruleId = entry.ruleId}

\* the trace lists applicable rules only, in scheduler order, none twice and
\* none skipped
TraceIsPrefixOfSchedule ==
    /\ \A k \in 1..Len(executionTrace) :
          \E i \in ApplicableAt : PositionsOf(executionTrace[k]) = {i}
    /\ \A k, l \in 1..Len(executionTrace) :
          k < l =>
              \A i \in PositionsOf(executionTrace[k]),
                 j \in PositionsOf(executionTrace[l]) :
                  /\ TakenBefore(i, j)
                  /\ ruleSet.rules[i].priority >= ruleSet.rules[j].priority
    /\ \A i \in ApplicableAt :
          (\A k \in 1..Len(executionTrace) : i \notin PositionsOf(executionTrace[k]))
              => \A k \in 1..Len(executionTrace) :
                     \A j \in PositionsOf(executionTrace[k]) : ~TakenBefore(i, j)

\* the record changes only by the actions of an applicable rule
OnlyApplicableRulesWrite ==
    (InPass /\ data' # data) =>
        \E i \in ApplicableAt :
            data' = executeActions(ruleSet.rules[i].then, data,
                                   request.context).data

(* C27: the trace is, in order, a prefix of the applicable rules of the      *)
(* ruleset taken by descending priority (ruleset order among equals): each   *)
(* evaluated rule appears once, priorities do not increase along the trace,  *)
(* and no disabled or out-of-scope rule is in the trace or changes the       *)
(* record.                                                                   *)
C27_TraceIsPrefixOfSchedule ==
    /\ [](InPass => TraceIsPrefixOfSchedule)
    /\ [][OnlyApplicableRulesWrite]_vars

\* a finished pass over a ruleset with a dropped rule in it, or one whose two
\* rules were evaluated against their ruleset order
C27_Witness ==
    /\ pc = "Done"
    /\ Len(executionTrace) = 2
    /\ executionTrace[1].ruleId = "R2"
    /\ executionTrace[2].ruleId = "R1"
    /\ TraceHasError(executionTrace[1])
    /\ executionTrace[2].matched

RECURSIVE EffectUntilThrow(_, _)
\* the actions applied in list order up to the first one that throws
EffectUntilThrow(actions, st) ==
    IF actions = <<>> \/ st.threw THEN st
    ELSE EffectUntilThrow(Tail(actions), applyAction(Head(actions), st))

\* the rule of the k-th trace entry
TracedRule(k) ==
    ruleSet.rules[CHOOSE i \in 1..Len(ruleSet.rules) :
                      ruleSet.rules[i].ruleId = executionTrace[k].ruleId]

RECURSIVE RecordAfter(_)
\* the record as the first k rules of the trace leave it when each rule sees
\* what the rules before it wrote: a rule whose condition holds on that record
\* applies its actions to it, up to the first action that throws
RecordAfter(k) ==
    IF k = 0 THEN Spread(ContextData(request.context), RequestData(request))
    ELSE LET before == RecordAfter(k - 1)
             c == evaluateCondition(TracedRule(k).when, before, request.context)
         IN IF c.threw \/ ~c.value THEN before
            ELSE EffectUntilThrow(
                     TracedRule(k).then,
                     ActionState(before, request.context, 0, FALSE, "")).data

\* the k-th trace entry tells what the rule's condition gives on the record
\* the earlier rules left
EntryFollowsRecord(k) ==
    LET entry == executionTrace[k]
        c == evaluateCondition(TracedRule(k).when, RecordAfter(k - 1),
                               request.context)
    IN /\ entry.matched => (~c.threw /\ c.value)
       /\ "conditionResult" \in DOMAIN entry =>
              (~c.threw /\ entry.conditionResult = c.value)
       /\ TraceHasError(entry) =>
              \/ c.threw /\ entry.error = c.message
              \/ ~c.threw /\ c.value /\ entry.error \in ActionErrorMessages

(* C28: rules act on one working record in scheduler order: each rule's      *)
(* condition is evaluated on the record as the actions of all earlier rules  *)
(* of the pass left it, the actions a failed rule applied before it threw    *)
(* included, and its actions are applied to that record.                     *)
C28_RulesSeeEarlierWrites ==
    InPass =>
        /\ \A k \in 1..Len(executionTrace) : EntryFollowsRecord(k)
        /\ pc # "AwaitActions" => data = RecordAfter(Len(executionTrace))

\* the second rule matched on a field that the first rule wrote before one of
\* its actions threw
C28_Witness ==
    /\ pc = "Done"
    /\ Len(executionTrace) = 2
    /\ TraceHasError(executionTrace[1])
    /\ executionTrace[1].error \in ActionErrorMessages
    /\ executionTrace[2].matched
    /\ TracedRule(2).when = CondB1
    /\ Prop(RecordAfter(0), "b") = Undef

RECURSIVE HoldsPath(_, _)
\* every segment of the path is a key that the value reached so far holds
HoldsPath(obj, path) ==
    IF path = <<>> THEN TRUE
    ELSE IF obj.t = "map"
    THEN Head(path) \in DOMAIN obj.v /\ HoldsPath(obj.v[Head(path)], Tail(path))
    ELSE IF obj.t \in {"arr", "str"}
    THEN Head(path) = "length" /\ Tail(path) = <<>>
    ELSE FALSE

\* the field path has a segment that is missing, in the record or, under the
\* context prefix, in the context
MissingSegment(field, d, context) ==
    IF Len(field) > 1 /\ Head(field) = "context"
    THEN ~HoldsPath(context, Tail(field))
    ELSE ~HoldsPath(d, field)

(* C30: a field path with a missing segment resolves to absent without an    *)
(* error, and a gt, gte, lt or lte condition on it is false for every        *)
(* literal.                                                                  *)
C30_MissingFieldComparesFalse ==
    (/\ lookupOut # NotEvaluated
     /\ MissingSegment(lookupCondition.field, lookupRecord, TestContext)) =>
        /\ ~lookupValue.threw
        /\ lookupValue.value = Undef
        /\ lookupCondition.op \in OrderingOps =>
               (~lookupOut.threw /\ ~lookupOut.value)

\* an earlier load of the same id got the ruleset from the config service
\* less than five minutes before the j-th load
LoadedWithinFiveMinutes(j) ==
    \E i \in 1..(j - 1) :
        /\ loads[i].ruleSetId = loads[j].ruleSetId
        /\ loads[i].requested
        /\ loads[i].returned # Null
        /\ loads[j].at - loads[i].at < 5 * Minute

(* C29: a ruleset loaded for one execute call is cached for 5 minutes: a     *)
(* later load of the same id on the same engine within 5 minutes is served   *)
(* from the cache without a request to the config service; a load after 5    *)
(* minutes, or after a failed load, asks the config service again.           *)
C29_RuleSetCachedFiveMinutes ==
    \A j \in 1..Len(loads) :
        /\ LoadedWithinFiveMinutes(j) =>
               (~loads[j].requested /\ loads[j].returned # Null)
        /\ ~LoadedWithinFiveMinutes(j) => loads[j].requested

Ended(s) == s.pc \in {"Done", "Aborted", "Rejected"}

RECURSIVE runToEnd(_)
\* a call run from where it is to its end with no other call in between
runToEnd(s) ==
    IF Ended(s) THEN s
    ELSE IF s.pc = "Start" THEN runToEnd(begin(s, clock))
    ELSE IF s.pc = "Loading" THEN runToEnd(loaded(s, serviceAnswer(s.request)))
    ELSE runToEnd(resumed(s))

\* the call on the request, alone
RunAlone(req) == runToEnd(NewCall(req))

\* how many steps of the schedule are steps of call c
StepsOf(c) == Cardinality({i \in 1..Len(schedule) : schedule[i] = c})

(* C23: for every interleaving of two execute calls at their awaits, each    *)
(* on its own context and data, a call returns the record, trace, errors and *)
(* counts it returns when it runs alone (at the same clock reading).         *)
C23_InterleavingKeepsResults ==
    \A c \in Calls :
        (Ended(calls[c]) /\ clock = calls[c].startTime) =>
            calls[c].result = RunAlone(calls[c].argument).result

\* both calls are over, each was suspended twice at least, and their steps
\* alternated
C23_Witness ==
    /\ \A c \in Calls : calls[c].pc = "Done" /\ StepsOf(c) >= 4
    /\ \A i \in 1..(Len(schedule) - 1) : i <= 6 => schedule[i] # schedule[i + 1]
    /\ calls.A.argument # calls.B.argument
    /\ calls.A.result.metadata.rulesMatched = 2
    /\ calls.B.result.metadata.rulesMatched = 1

\* what the claim compares of a result: the record, the trace, the errors
\* and the counts (the model has no elapsed times or timestamps)
Compared(res) ==
    IF res.kind = "returned"
    THEN <<res.data, res.executionTrace, res.metadata>>
    ELSE <<res>>

(* C22: two execute calls with equal ruleset, equal context and equal        *)
(* request data return equal final records, equal traces and equal counts.   *)
C22_EqualInputsEqualResults ==
    (/\ Ended(calls.A) /\ Ended(calls.B)
     /\ calls.A.argument = calls.B.argument) =>
        Compared(calls.A.result) = Compared(calls.B.result)

(* C25: every expression evaluation ends within the time bound: it does not  *)
(* run past the timeout, and one that reaches it ends with an                *)
(* ExpressionTimeout error instead of a value.                               *)
C25_ExpressionEvaluationBounded ==
    /\ exprPc = "evaluating" => elapsed <= ExpressionTimeoutMs
    /\ (exprPc = "returned" /\ elapsed >= ExpressionTimeoutMs) =>
           (exprOut.threw /\ exprOut.message = "ExpressionTimeout")

====
